---- MODULE Spec2Model ----
(***************************************************************************)
(* Tier 3 graph validation of UNTP credentials: the quad store, the       *)
(* ordered application of the N3 inference rules (runInferences), and the *)
(* resolvers that read the enriched store (listAllProductClaimCriteria,   *)
(* getUnattestedIssuersForProduct, checkProductClaims).                    *)
(***************************************************************************)
EXTENDS Integers, Sequences, FiniteSets, TLC

(***************************************************************************)
(* Bounds of the model.                                                    *)
(***************************************************************************)
\* number of runInferences calls made on one store
MaxRuns == 2
\* number of documents added to a store after runInferences has run on it
MaxLate == 1

(***************************************************************************)
(* RDF terms and quads.  A quad is <<subject, predicate, object, graph>>; *)
(* createRDFGraph is called with useNamedGraphs = false, so every ingested *)
(* quad lies in the default graph.                                         *)
(***************************************************************************)
DefaultGraph == ""

T(s, p, o) == <<s, p, o, DefaultGraph>>

\* objects of the quads of S with subject s and predicate p
Obj(S, s, p) == {q[3] : q \in {r \in S : r[1] = s /\ r[2] = p}}

\* subjects of the quads of S with predicate p and object o
Subj(S, p, o) == {q[1] : q \in {r \in S : r[2] = p /\ r[3] = o}}

\* all <<subject, object>> pairs of predicate p
Pairs(S, p) == {<<q[1], q[3]>> : q \in {r \in S : r[2] = p}}

(***************************************************************************)
(* The credential documents a run can ingest.  DppSimple and DccSimple are *)
(* the shipped examples; the others vary them (a second conformity         *)
(* credential, a passport with a claim that has no criteria, and identity  *)
(* anchors forming a chain, a cycle and a self-loop).                      *)
(***************************************************************************)
Product1  == "https://id.gs1.org/01/09520123456788/21/12345"
Product2  == "https://id.gs1.org/01/09520123456788/21/67890"
Claim1    == "example:product:1:claim:1"
Claim2    == "example:product:1:claim:2"
Claim3    == "example:product:2:claim:1"
Emissions == "environment.emissions"
Waste     == "environment.waste"
Labour    == "social.labour"
Assembly  == "gba-rulebook#BatteryAssembly"
Packaging == "gba-rulebook#BatteryPackaging"
Disposal  == "gba-rulebook#BatteryDisposal"
Recycling == "gba-rulebook#BatteryRecycling"

DppSimpleId == "http://localhost/credentials/untp-dpp-simple.json"
DccSimpleId == "http://localhost/credentials/untp-dcc-simple.json"
DccPackId   == "http://localhost/credentials/untp-dcc-packaging.json"
DppPlainId  == "http://localhost/credentials/untp-dpp-plain.json"
DiaYId      == "http://localhost/credentials/untp-dia-y.json"
DiaZId      == "http://localhost/credentials/untp-dia-z.json"
DiaBackId   == "http://localhost/credentials/untp-dia-back.json"
DiaSelfId   == "http://localhost/credentials/untp-dia-self.json"

BatteryCo   == "did:web:battery-company.com"
CertifierX  == "did:web:identifiers.electronic-certifier.com"
Certifier2  == "did:web:second-certifier.com"
RegistrarY  == "did:web:registrar-y.example"
RootZ       == "did:web:root-z.example"

DppSimpleQuads ==
    { T(DppSimpleId, "rdf:type", "dpp:DigitalProductPassport"),
      T(DppSimpleId, "rdf:type", "vc:VerifiableCredential"),
      T(DppSimpleId, "vc:issuer", BatteryCo),
      T(BatteryCo, "schemaorg:name", "Battery Company Pty Ltd"),
      T(DppSimpleId, "vc:credentialSubject", "_:dpp1_b0"),
      T("_:dpp1_b0", "untp:product", Product1),
      T(Product1, "schemaorg:name", "EV battery 300Ah"),
      T("_:dpp1_b0", "untp:conformityClaim", Claim1),
      T(Claim1, "untp:conformityTopic", Emissions),
      T(Claim1, "untp:conformance", "true"),
      T(Claim1, "untp:Criterion", Assembly),
      T(Claim1, "untp:Criterion", Packaging),
      T(Assembly, "schemaorg:name", "battery assembly guidelines"),
      T(Packaging, "schemaorg:name", "battery packaging guidelines"),
      T("_:dpp1_b0", "untp:conformityClaim", Claim2),
      T(Claim2, "untp:conformityTopic", Waste),
      T(Claim2, "untp:conformance", "true"),
      T(Claim2, "untp:Criterion", Disposal),
      T(Claim2, "untp:Criterion", Recycling),
      T(Disposal, "schemaorg:name", "battery disposal guidelines"),
      T(Recycling, "schemaorg:name", "battery recycling guidelines") }

\* Both assessments of the shipped conformity credential carry the same id,
\* so they are one node of the graph: it has both topics and all three
\* criteria.
Assessment01 == "https://exampleCAB.com/38f73303/01"

DccSimpleQuads ==
    { T(DccSimpleId, "rdf:type", "dcc:DigitalConformityCredential"),
      T(DccSimpleId, "rdf:type", "vc:VerifiableCredential"),
      T(DccSimpleId, "vc:issuer", CertifierX),
      T(CertifierX, "schemaorg:name", "Electronic Certifier Pty Ltd"),
      T(DccSimpleId, "vc:credentialSubject", "https://sample-certifiers.com/attestations/12345"),
      T("https://sample-certifiers.com/attestations/12345", "dcc:assessment", Assessment01),
      T(Assessment01, "dcc:assessedProduct", "_:dcc1_b0"),
      T("_:dcc1_b0", "untp:Product", Product1),
      T(Assessment01, "dcc:assessedProduct", "_:dcc1_b1"),
      T("_:dcc1_b1", "untp:Product", Product1),
      T(Product1, "schemaorg:name", "EV battery 300Ah"),
      T(Assessment01, "untp:conformityTopic", Emissions),
      T(Assessment01, "untp:conformityTopic", Waste),
      T(Assessment01, "untp:conformance", "true"),
      T(Assessment01, "untp:Criterion", Assembly),
      T(Assessment01, "untp:Criterion", Disposal),
      T(Assessment01, "untp:Criterion", Recycling),
      T(Assembly, "schemaorg:name", "battery assembly guidelines"),
      T(Disposal, "schemaorg:name", "battery disposal guidelines"),
      T(Recycling, "schemaorg:name", "battery recycling guidelines") }

\* a second conformity credential, from another issuer, attesting the
\* criterion the shipped one leaves out
DccPackQuads ==
    { T(DccPackId, "rdf:type", "dcc:DigitalConformityCredential"),
      T(DccPackId, "rdf:type", "vc:VerifiableCredential"),
      T(DccPackId, "vc:issuer", Certifier2),
      T(Certifier2, "schemaorg:name", "Second Certifier Ltd"),
      T(DccPackId, "vc:credentialSubject", "https://second-certifier.com/attestations/1"),
      T("https://second-certifier.com/attestations/1", "dcc:assessment", "https://second-certifier.com/assessment/1"),
      T("https://second-certifier.com/assessment/1", "dcc:assessedProduct", "_:dcc2_b0"),
      T("_:dcc2_b0", "untp:Product", Product1),
      T("https://second-certifier.com/assessment/1", "untp:conformityTopic", Emissions),
      T("https://second-certifier.com/assessment/1", "untp:conformance", "true"),
      T("https://second-certifier.com/assessment/1", "untp:Criterion", Packaging),
      T(Packaging, "schemaorg:name", "battery packaging guidelines") }

\* a passport of a second product whose only claim lists no criteria
DppPlainQuads ==
    { T(DppPlainId, "rdf:type", "dpp:DigitalProductPassport"),
      T(DppPlainId, "rdf:type", "vc:VerifiableCredential"),
      T(DppPlainId, "vc:issuer", BatteryCo),
      T(BatteryCo, "schemaorg:name", "Battery Company Pty Ltd"),
      T(DppPlainId, "vc:credentialSubject", "_:dpp2_b0"),
      T("_:dpp2_b0", "untp:product", Product2),
      T(Product2, "schemaorg:name", "EV battery 100Ah"),
      T("_:dpp2_b0", "untp:conformityClaim", Claim3),
      T(Claim3, "untp:conformityTopic", Labour),
      T(Claim3, "untp:conformance", "true") }

\* a passport issued again for the first product, repeating its emissions
\* claim with one of the criteria
DppReissueId == "http://localhost/credentials/untp-dpp-reissued.json"

DppReissueQuads ==
    { T(DppReissueId, "rdf:type", "dpp:DigitalProductPassport"),
      T(DppReissueId, "rdf:type", "vc:VerifiableCredential"),
      T(DppReissueId, "vc:issuer", BatteryCo),
      T(BatteryCo, "schemaorg:name", "Battery Company Pty Ltd"),
      T(DppReissueId, "vc:credentialSubject", "_:dpp3_b0"),
      T("_:dpp3_b0", "untp:product", Product1),
      T(Product1, "schemaorg:name", "EV battery 300Ah"),
      T("_:dpp3_b0", "untp:conformityClaim", Claim1),
      T(Claim1, "untp:conformityTopic", Emissions),
      T(Claim1, "untp:conformance", "true"),
      T(Claim1, "untp:Criterion", Assembly),
      T(Assembly, "schemaorg:name", "battery assembly guidelines") }

\* a passport of a third product with criteria that carry no name: a claim
\* with a named and an unnamed criterion, and a claim with an unnamed one only
DppLooseId == "http://localhost/credentials/untp-dpp-loose.json"
Product3   == "https://id.gs1.org/01/09520123456788/21/24680"
Claim5     == "example:product:3:claim:1"
Claim6     == "example:product:3:claim:2"
Draft1     == "gba-rulebook#Draft1"
Draft2     == "gba-rulebook#Draft2"

DppLooseQuads ==
    { T(DppLooseId, "rdf:type", "dpp:DigitalProductPassport"),
      T(DppLooseId, "rdf:type", "vc:VerifiableCredential"),
      T(DppLooseId, "vc:issuer", BatteryCo),
      T(BatteryCo, "schemaorg:name", "Battery Company Pty Ltd"),
      T(DppLooseId, "vc:credentialSubject", "_:dpp4_b0"),
      T("_:dpp4_b0", "untp:product", Product3),
      T(Product3, "schemaorg:name", "EV battery 50Ah"),
      T("_:dpp4_b0", "untp:conformityClaim", Claim5),
      T(Claim5, "untp:conformityTopic", Emissions),
      T(Claim5, "untp:conformance", "true"),
      T(Claim5, "untp:Criterion", Assembly),
      T(Assembly, "schemaorg:name", "battery assembly guidelines"),
      T(Claim5, "untp:Criterion", Draft1),
      T("_:dpp4_b0", "untp:conformityClaim", Claim6),
      T(Claim6, "untp:conformityTopic", Waste),
      T(Claim6, "untp:conformance", "true"),
      T(Claim6, "untp:Criterion", Draft2) }

\* two passports whose product and claim identifiers contain '-': a claim
\* without criteria each
DppLotAId == "http://localhost/credentials/untp-dpp-lot-a.json"
DppLotBId == "http://localhost/credentials/untp-dpp-lot-b.json"
ProductA  == "urn:batch:7"
ProductB  == "urn:batch:7-urn:lot:2"
ClaimA    == "urn:lot:2-urn:claim:1"
ClaimB    == "urn:claim:1"

DppLotQuads(id, subject, product, productName, claim, topic) ==
    { T(id, "rdf:type", "dpp:DigitalProductPassport"),
      T(id, "rdf:type", "vc:VerifiableCredential"),
      T(id, "vc:issuer", BatteryCo),
      T(BatteryCo, "schemaorg:name", "Battery Company Pty Ltd"),
      T(id, "vc:credentialSubject", subject),
      T(subject, "untp:product", product),
      T(product, "schemaorg:name", productName),
      T(subject, "untp:conformityClaim", claim),
      T(claim, "untp:conformityTopic", topic),
      T(claim, "untp:conformance", "true") }

\* an identity anchor: credential id, its issuer, and the party it attests
DiaQuads(id, issuer, subject) ==
    { T(id, "rdf:type", "dia:DigitalIdentityAnchor"),
      T(id, "rdf:type", "vc:VerifiableCredential"),
      T(id, "vc:issuer", issuer),
      T(id, "vc:credentialSubject", subject) }

\* a passport and a conformity credential that each violate the UNTP schema
\* of their type (a required property is missing)
DppBrokenId == "http://localhost/credentials/untp-dpp-broken.json"
DccBrokenId == "http://localhost/credentials/untp-dcc-broken.json"

DccBrokenQuads ==
    { T(DccBrokenId, "rdf:type", "dcc:DigitalConformityCredential"),
      T(DccBrokenId, "rdf:type", "vc:VerifiableCredential"),
      T(DccBrokenId, "vc:issuer", Certifier2),
      T(Certifier2, "schemaorg:name", "Second Certifier Ltd"),
      T(DccBrokenId, "vc:credentialSubject", "https://second-certifier.com/attestations/2") }

\* a conformity credential none of whose assessments attests the packaging
\* criterion of the emissions claim of the first product: one found it not
\* conforming, one assessed another product, one another topic
DccFailedId == "http://localhost/credentials/untp-dcc-failed.json"
AssessmentNo    == "https://second-certifier.com/assessment/no"
AssessmentOther == "https://second-certifier.com/assessment/other"
AssessmentTopic == "https://second-certifier.com/assessment/topic"

DccFailedQuads ==
    { T(DccFailedId, "rdf:type", "dcc:DigitalConformityCredential"),
      T(DccFailedId, "rdf:type", "vc:VerifiableCredential"),
      T(DccFailedId, "vc:issuer", Certifier2),
      T(Certifier2, "schemaorg:name", "Second Certifier Ltd"),
      T(DccFailedId, "vc:credentialSubject", "https://second-certifier.com/attestations/3"),
      T("https://second-certifier.com/attestations/3", "dcc:assessment", AssessmentNo),
      T(AssessmentNo, "dcc:assessedProduct", "_:dcc3_b0"),
      T("_:dcc3_b0", "untp:Product", Product1),
      T(AssessmentNo, "untp:conformityTopic", Emissions),
      T(AssessmentNo, "untp:conformance", "false"),
      T(AssessmentNo, "untp:Criterion", Packaging),
      T("https://second-certifier.com/attestations/3", "dcc:assessment", AssessmentOther),
      T(AssessmentOther, "dcc:assessedProduct", "_:dcc3_b1"),
      T("_:dcc3_b1", "untp:Product", Product2),
      T(AssessmentOther, "untp:conformityTopic", Emissions),
      T(AssessmentOther, "untp:conformance", "true"),
      T(AssessmentOther, "untp:Criterion", Packaging),
      T("https://second-certifier.com/attestations/3", "dcc:assessment", AssessmentTopic),
      T(AssessmentTopic, "dcc:assessedProduct", "_:dcc3_b2"),
      T("_:dcc3_b2", "untp:Product", Product1),
      T(AssessmentTopic, "untp:conformityTopic", Labour),
      T(AssessmentTopic, "untp:conformance", "true"),
      T(AssessmentTopic, "untp:Criterion", Packaging),
      T(Packaging, "schemaorg:name", "battery packaging guidelines") }

\* the documents of a Tier 3 run
Documents == { DppSimpleId, DccSimpleId, DccPackId, DppPlainId, DiaYId }

\* further passports: repeated rows, unnamed criteria, identifiers with '-'
PassportDocuments == { DppReissueId, DppLooseId, DppLotAId, DppLotBId }

\* further identity anchors: the end of a chain, a cycle, a self-loop
AnchorDocuments == { DiaZId, DiaBackId, DiaSelfId }

\* the quads jsonld.toRDF and the N-Quads parser produce for a document
DocQuads(d) ==
    CASE d = DppSimpleId -> DppSimpleQuads
      [] d = DccSimpleId -> DccSimpleQuads
      [] d = DccPackId   -> DccPackQuads
      [] d = DppPlainId  -> DppPlainQuads
      [] d = DiaYId      -> DiaQuads(DiaYId, RegistrarY, CertifierX)
      [] d = DiaZId      -> DiaQuads(DiaZId, RootZ, RegistrarY)
      [] d = DiaBackId   -> DiaQuads(DiaBackId, CertifierX, RegistrarY)
      [] d = DiaSelfId   -> DiaQuads(DiaSelfId, RootZ, RootZ)
      [] d = DppReissueId -> DppReissueQuads
      [] d = DppLooseId  -> DppLooseQuads
      [] d = DppLotAId   -> DppLotQuads(DppLotAId, "_:dpp5_b0", ProductA, "Cell batch 7",
                                        ClaimA, Labour)
      [] d = DppLotBId   -> DppLotQuads(DppLotBId, "_:dpp6_b0", ProductB, "Cell batch 7 lot 2",
                                        ClaimB, Waste)
      [] d = DppBrokenId -> DppLotQuads(DppBrokenId, "_:dpp7_b0", Product2, "EV battery 100Ah",
                                        Claim3, Labour)
      [] d = DccBrokenId -> DccBrokenQuads
      [] d = DccFailedId -> DccFailedQuads

\* documents for which parsedDataToNQuads throws: a context jsonld.toRDF
\* cannot expand, and a file whose parsed content is null
BadContextId == "http://localhost/credentials/bad-context.json"
NullDataPath == "file://credentials/null.json"

BadDocuments == { BadContextId, NullDataPath }

\* the conversion of the document to quads throws
ConversionThrows(d) == d \in BadDocuments

\* blank nodes of the ingested documents
BlankNodes == {"_:dpp1_b0", "_:dpp2_b0", "_:dcc1_b0", "_:dcc1_b1", "_:dcc2_b0",
               "_:dpp3_b0", "_:dpp4_b0", "_:dpp5_b0", "_:dpp6_b0", "_:dpp7_b0",
               "_:dcc3_b0", "_:dcc3_b1", "_:dcc3_b2"}

(***************************************************************************)
(* The inference rules, as the reasoner evaluates them over a set of quads *)
(* S: every instantiation of the consequent for which the antecedent       *)
(* matches.                                                                *)
(***************************************************************************)
\* subjects typed as a class
OfType(S, class) == Subj(S, "rdf:type", class)

\* the antecedent without the test of the assessed conformance
Rule10AnyConformance(S, dpp, claim, criterion, dcc) ==
    /\ dpp \in OfType(S, "dpp:DigitalProductPassport")
    /\ dcc \in OfType(S, "dcc:DigitalConformityCredential")
    /\ \E subject \in Obj(S, dpp, "vc:credentialSubject") :
       \E product \in Obj(S, subject, "untp:product") :
       \E topic \in Obj(S, claim, "untp:conformityTopic") :
          /\ Obj(S, product, "schemaorg:name") # {}
          /\ claim \in Obj(S, subject, "untp:conformityClaim")
          /\ Obj(S, claim, "untp:conformance") # {}
          /\ criterion \in Obj(S, claim, "untp:Criterion")
          /\ Obj(S, criterion, "schemaorg:name") # {}
          /\ \E issuer \in Obj(S, dcc, "vc:issuer") :
                Obj(S, issuer, "schemaorg:name") # {}
          /\ \E dccSubject \in Obj(S, dcc, "vc:credentialSubject") :
             \E assessment \in Obj(S, dccSubject, "dcc:assessment") :
                /\ \E assessed \in Obj(S, assessment, "dcc:assessedProduct") :
                      product \in Obj(S, assessed, "untp:Product")
                /\ topic \in Obj(S, assessment, "untp:conformityTopic")
                /\ Obj(S, assessment, "untp:conformance") # {}
                /\ criterion \in Obj(S, assessment, "untp:Criterion")

\* antecedent of 10-infer-product-claim-criteria-verified.n3
Rule10Holds(S, dpp, claim, criterion, dcc) ==
    /\ dpp \in OfType(S, "dpp:DigitalProductPassport")
    /\ dcc \in OfType(S, "dcc:DigitalConformityCredential")
    /\ \E subject \in Obj(S, dpp, "vc:credentialSubject") :
       \E product \in Obj(S, subject, "untp:product") :
       \E topic \in Obj(S, claim, "untp:conformityTopic") :
          /\ Obj(S, product, "schemaorg:name") # {}
          /\ claim \in Obj(S, subject, "untp:conformityClaim")
          /\ Obj(S, claim, "untp:conformance") # {}
          /\ criterion \in Obj(S, claim, "untp:Criterion")
          /\ Obj(S, criterion, "schemaorg:name") # {}
          /\ \E issuer \in Obj(S, dcc, "vc:issuer") :
                Obj(S, issuer, "schemaorg:name") # {}
          /\ \E dccSubject \in Obj(S, dcc, "vc:credentialSubject") :
             \E assessment \in Obj(S, dccSubject, "dcc:assessment") :
                /\ \E assessed \in Obj(S, assessment, "dcc:assessedProduct") :
                      product \in Obj(S, assessed, "untp:Product")
                /\ topic \in Obj(S, assessment, "untp:conformityTopic")
                /\ "true" \in Obj(S, assessment, "untp:conformance")
                /\ criterion \in Obj(S, assessment, "untp:Criterion")

\* 10-infer-product-claim-criteria-verified.n3
Rule10(S) ==
    UNION { { T(b[2], "result:verifiedCriterion", b[3]),
              T(b[2], "result:dependsOn", b[4]),
              T(b[1], "result:claimsAttestedBy", b[4]) } :
            b \in { c \in OfType(S, "dpp:DigitalProductPassport")
                          \X {p[2] : p \in Pairs(S, "untp:conformityClaim")}
                          \X {p[2] : p \in Pairs(S, "untp:Criterion")}
                          \X OfType(S, "dcc:DigitalConformityCredential") :
                    Rule10Holds(S, c[1], c[2], c[3], c[4]) } }

\* 20-infer-product-claim-verified.n3: a claim all of whose criteria carry a
\* verifiedCriterion fact; the quantifier is true of a claim with no criteria
Rule20(S) ==
    { T(claim, "result:allCriteriaVerified", "true") :
        claim \in { c \in {p[2] : p \in Pairs(S, "untp:conformityClaim")} :
                      \A criterion \in Obj(S, c, "untp:Criterion") :
                         T(c, "result:verifiedCriterion", criterion) \in S } }

\* the identity rule: a credential whose issuer is the subject of an anchor
Rule30(S) ==
    { T(b[1], "result:issuerIdentityAttestedBy", b[2]) :
        b \in { c \in OfType(S, "vc:VerifiableCredential")
                      \X OfType(S, "dia:DigitalIdentityAnchor") :
                  Obj(S, c[1], "vc:issuer") \cap Obj(S, c[2], "vc:credentialSubject") # {} } }

\* the content of a rule file
RuleResults(rule, S) ==
    CASE rule = "rule10" -> Rule10(S)
      [] rule = "rule20" -> Rule20(S)
      [] rule = "rule30" -> Rule30(S)


(***************************************************************************)
(* The rule catalog: the files of the inferences directory.  A file name   *)
(* is <prefix>-<stem><ext>; rule is the content of the file.               *)
(***************************************************************************)
RuleFile(n, stem, ext, rule) == [prefix |-> n, stem |-> stem, ext |-> ext, rule |-> rule]

\* the catalog as the README describes it
ShippedCatalog ==
    { RuleFile(10, "infer-product-claim-criteria-verified", ".n3", "rule10"),
      RuleFile(20, "infer-product-claim-verified", ".n3", "rule20"),
      RuleFile(30, "infer-issuer-identity-attested", ".n3", "rule30") }

\* a catalog whose prefixes differ in their number of digits, with a file
\* that is not a rule file
WideCatalog ==
    { RuleFile(20, "infer-product-claim-criteria-verified", ".n3", "rule10"),
      RuleFile(100, "infer-product-claim-verified", ".n3", "rule20"),
      RuleFile(30, "infer-issuer-identity-attested", ".n3", "rule30"),
      RuleFile(15, "notes", ".txt", "none") }

\* a catalog with a rule file whose output the N3 parser rejects and one
\* for which the reasoner hands back no string
FaultyCatalog ==
    { RuleFile(10, "infer-product-claim-criteria-verified", ".n3", "rule10"),
      RuleFile(20, "infer-output-strings", ".n3", "garbled"),
      RuleFile(30, "infer-nothing", ".n3", "void") }

Catalogs == {ShippedCatalog, WideCatalog, FaultyCatalog}

\* the file name as a string
FileName(f) == ToString(f.prefix) \o "-" \o f.stem \o f.ext

\* UTF-16 code units of the decimal digits of n
RECURSIVE Digits(_)
Digits(n) == IF n < 10 THEN <<48 + n>>
             ELSE Digits(n \div 10) \o <<48 + (n % 10)>>

\* code units of a stem, up to the unit that tells the stems apart
StemCodes(stem) ==
    CASE stem = "infer-product-claim-criteria-verified" -> <<105, 99>>
      [] stem = "infer-product-claim-verified"          -> <<105, 118>>
      [] stem = "infer-issuer-identity-attested"        -> <<105, 105>>
      [] stem = "infer-output-strings"                  -> <<105, 111>>
      [] stem = "infer-nothing"                         -> <<105, 110>>
      [] stem = "notes"                                  -> <<110, 111>>

\* code units of a file name: the digits, '-', the stem
NameCodes(f) == Digits(f.prefix) \o <<45>> \o StemCodes(f.stem)

\* the order of Array.prototype.sort() without a comparator: by code unit
CodeUnitLess(a, b) ==
    \E i \in 1..(Len(a) + 1) :
       /\ \A j \in 1..(i - 1) : j <= Len(b) /\ a[j] = b[j]
       /\ \/ i = Len(a) + 1 /\ Len(b) >= i
          \/ i <= Len(a) /\ i <= Len(b) /\ a[i] < b[i]

\* files.sort()
RECURSIVE SortFiles(_)
SortFiles(F) ==
    IF F = {} THEN <<>>
    ELSE LET first == CHOOSE f \in F :
                         \A g \in F \ {f} : CodeUnitLess(NameCodes(f), NameCodes(g))
         IN  <<first>> \o SortFiles(F \ {first})

\* fs.readdirSync(inferencesDir).filter(file => file.endsWith('.n3')).sort()
ListRuleFiles(catalogFiles) == SortFiles({f \in catalogFiles : f.ext = ".n3"})

(***************************************************************************)
(* Paths are sequences of segments below the file system root.            *)
(***************************************************************************)
CoreDir == <<"core">>

\* path.join: the segments of b follow those of a, also when b is absolute
PathJoin(a, b) == a \o b

\* path.join(inferencesDir, file)
InferenceFilePath(f) == PathJoin(PathJoin(CoreDir, <<"inferences">>), <<FileName(f)>>)

\* `${queryName}.n3`
WithN3(queryName) == [queryName EXCEPT ![Len(queryName)] = @ \o ".n3"]

\* the path getQueryFilePath builds for a query name
QueryPath(queryName) == PathJoin(PathJoin(CoreDir, <<"queries">>), WithN3(queryName))

\* getQueryFilePath: the path, or "throws" when no such file exists
getQueryFilePath(queryName, files) ==
    IF QueryPath(queryName) \in files THEN QueryPath(queryName) ELSE <<"throws">>

\* the files of a checkout: the rule catalog and the query of the queries
\* directory
CheckoutFiles(catalogFiles) ==
    {InferenceFilePath(f) : f \in catalogFiles}
      \cup {<<"core", "queries", "list-all-product-claim-criteria.n3">>}

\* files an installation may hold in addition, below the queries directory
ExtraQueryFiles(catalogFiles) ==
    {QueryPath(InferenceFilePath(f)) : f \in {g \in catalogFiles : g.ext = ".n3"}}

\* the rule a file holds: a file below queries/ holds the rule of the
\* catalog file of that name
FileContent(path, catalogFiles) ==
    LET f == CHOOSE g \in catalogFiles :
                 path \in {InferenceFilePath(g), QueryPath(InferenceFilePath(g))}
    IN  f.rule


(***************************************************************************)
(* executeQuery: resolve the query file, serialise the quads, run the      *)
(* reasoner on them with the content of the file, parse its output.        *)
(***************************************************************************)
\* the Writer's N3 text for a set of quads, as the set of its statements
WriteN3(quads) == quads

\* n3reasoner(graphContent, queryContent, {outputType: "string"}): the type
\* of the result, whether new Parser().parse accepts the text, the
\* statements of the text (the instantiated consequents) and its lines that
\* start with '<'
n3reasoner(graphContent, rule) ==
    CASE rule = "garbled" ->
           [type |-> "string", parses |-> FALSE, statements |-> {}, tripleLines |-> {}]
      [] rule = "void" ->
           [type |-> "undefined", parses |-> FALSE, statements |-> {}, tripleLines |-> {}]
      [] OTHER ->
           [type |-> "string", parses |-> TRUE,
            statements |-> RuleResults(rule, graphContent), tripleLines |-> {}]

\* the label a new Parser gives a blank node of the text it reads
ParsedLabel(term) == IF term \in BlankNodes THEN term \o "_parsed" ELSE term

\* new Parser().parse(text)
ParseN3(text) == {<<ParsedLabel(q[1]), q[2], ParsedLabel(q[3]), q[4]>> : q \in text}

executeQuery(queryName, quads, files, catalogFiles) ==
    LET queryFile == getQueryFilePath(queryName, files)
    IN  IF queryFile = <<"throws">>
        THEN [threw |-> TRUE, quads |-> {}]
        ELSE LET res == n3reasoner(WriteN3(quads), FileContent(queryFile, catalogFiles))
             IN  [threw |-> FALSE,
                  quads |-> IF res.type = "string"
                            THEN IF res.parses THEN ParseN3(res.statements)
                                 ELSE ParseN3(res.tripleLines)
                            ELSE {}]

\* a reading taken once, before the loop over the rule files
RuleInputAtStart(currentStore, storeAtStart) == storeAtStart

\* store.getQuads(null, null, null, null), the input of a rule
RuleInput(currentStore, storeAtStart) == currentStore

\* a store rebuilt from the quads handed in
addQuadsReplacing(currentStore, quads) == quads

\* store.addQuads(quads)
addQuads(currentStore, quads) == currentStore \cup quads

\* parsedDataToNQuads(jsonData, baseUri, false), where it returns
parsedDataToNQuads(d) == DocQuads(d)

\* createRDFGraph: the ValidationResult of a document
DocResult(d) ==
    IF ConversionThrows(d)
    THEN [valid |-> FALSE, errors |-> <<"RDF_GRAPH_ERROR">>, graphNodes |-> 0]
    ELSE [valid |-> TRUE, errors |-> <<>>,
          graphNodes |-> Cardinality(parsedDataToNQuads(d))]

\* a loop whose store does not survive a document that fails
DocStoreAborting(S, d) ==
    IF ConversionThrows(d) THEN {} ELSE addQuads(S, parsedDataToNQuads(d))

\* createRDFGraph: the store after the loop body ran for a document
DocStore(S, d) ==
    IF ConversionThrows(d) THEN S ELSE addQuads(S, parsedDataToNQuads(d))

(***************************************************************************)
(* listAllProductClaimCriteria: three SPARQL queries over the store, whose *)
(* rows are folded into the Product / Claim / Criterion maps.              *)
(***************************************************************************)
\* join step: every row of R extended by each value of F(row)
Extend(R, F(_)) == UNION {{Append(r, v) : v \in F(r)} : r \in R}

\* rows in the order the engine delivers them
RECURSIVE RowOrder(_)
RowOrder(R) ==
    IF R = {} THEN <<>>
    ELSE LET r == CHOOSE x \in R : TRUE IN <<r>> \o RowOrder(R \ {r})

\* the basic graph pattern the first and the third query share:
\* <<credential, subject, product, productName, claim, topic, conformance>>
ClaimBindings(S) ==
    LET r1 == {<<c>> : c \in OfType(S, "dpp:DigitalProductPassport")}
        r2 == Extend(r1, LAMBDA r : Obj(S, r[1], "vc:credentialSubject"))
        r3 == Extend(r2, LAMBDA r : Obj(S, r[2], "untp:product"))
        r4 == Extend(r3, LAMBDA r : Obj(S, r[3], "schemaorg:name"))
        r5 == Extend(r4, LAMBDA r : Obj(S, r[2], "untp:conformityClaim"))
        r6 == Extend(r5, LAMBDA r : Obj(S, r[5], "untp:conformityTopic"))
    IN  Extend(r6, LAMBDA r : Obj(S, r[5], "untp:conformance"))

\* EXISTS { ?claim result:allCriteriaVerified true }
ClaimVerifiedIn(S, claim) == "true" \in Obj(S, claim, "result:allCriteriaVerified")

\* EXISTS { ?claim result:verifiedCriterion ?criterion }
CriterionVerifiedIn(S, claim, criterion) ==
    criterion \in Obj(S, claim, "result:verifiedCriterion")

\* the rows of the first query
CriteriaRows(S) ==
    LET r8 == Extend(ClaimBindings(S), LAMBDA r : Obj(S, r[5], "untp:Criterion"))
        r9 == Extend(r8, LAMBDA r : Obj(S, r[8], "schemaorg:name"))
    IN  { [credential |-> r[1], subject |-> r[2], product |-> r[3],
           productName |-> r[4], claim |-> r[5], topic |-> r[6],
           conformance |-> r[7], criterion |-> r[8], criterionName |-> r[9],
           claimVerified |-> ClaimVerifiedIn(S, r[5]),
           criterionVerified |-> CriterionVerifiedIn(S, r[5], r[8])] : r \in r9 }

\* the rows of the verifier query
VerifierRows(S) ==
    LET r1 == {<<p[1], p[2]>> : p \in Pairs(S, "result:verifiedCriterion")}
        r2 == Extend(r1, LAMBDA r : Obj(S, r[1], "result:dependsOn"))
        r3 == Extend(r2, LAMBDA r : Obj(S, r[3], "vc:issuer"))
        r4 == Extend(r3, LAMBDA r : Obj(S, r[4], "schemaorg:name"))
    IN  { [claim |-> r[1], criterion |-> r[2], dccCredential |-> r[3],
           verifierId |-> r[4], verifierName |-> r[5]] : r \in r4 }

\* the rows of the simple-claims query
SimpleClaimRows(S) ==
    { [credential |-> r[1], subject |-> r[2], product |-> r[3],
       productName |-> r[4], claim |-> r[5], topic |-> r[6],
       conformance |-> r[7], claimVerified |-> ClaimVerifiedIn(S, r[5])] :
      r \in { b \in ClaimBindings(S) : Obj(S, b[5], "untp:Criterion") = {} } }

\* `${productId}-${claimId}`
ClaimKey(productId, claimId) == productId \o "-" \o claimId

\* indexes of the entries of a sequence that satisfy a test
Where(seq, Test(_)) == {i \in 1..Len(seq) : Test(seq[i])}

\* the maps before the first row
EmptyMaps == [products |-> <<>>, claims |-> <<>>, criteria |-> <<>>]

\* productsMap.has / productsMap.set
WithProduct(m, row) ==
    IF Where(m.products, LAMBDA p : p.id = row.product) # {} THEN m
    ELSE [m EXCEPT !.products =
            Append(@, [id |-> row.product, name |-> row.productName,
                       dppId |-> row.credential])]

\* the verified flag of an existing claim after a further row for it
MergeVerified(old, claimVerified) == IF claimVerified THEN TRUE ELSE old

\* claimsMap.has / claimsMap.set / push onto the product's claims
WithClaim(m, row) ==
    LET key == ClaimKey(row.product, row.claim)
        at == Where(m.claims, LAMBDA c : c.key = key)
    IN  IF at = {}
        THEN [m EXCEPT !.claims =
                Append(@, [key |-> key, owner |-> row.product, id |-> row.claim,
                           topic |-> row.topic, conformance |-> row.conformance,
                           verified |-> row.claimVerified])]
        ELSE [m EXCEPT !.claims =
                [i \in 1..Len(@) |->
                   IF i \in at
                   THEN [@[i] EXCEPT !.verified = MergeVerified(@, row.claimVerified)]
                   ELSE @[i]]]

\* a push without the test whether the claim has the criterion already
WithCriterionEveryRow(m, row) ==
    [m EXCEPT !.criteria =
       Append(@, [key |-> ClaimKey(row.product, row.claim), id |-> row.criterion,
                  name |-> row.criterionName,
                  verifiedBy |-> IF row.criterionVerified
                                 THEN "verified" ELSE "undefined",
                  verifierName |-> "undefined"])]

\* claim.criteria.some / claim.criteria.push
WithCriterion(m, row) ==
    LET key == ClaimKey(row.product, row.claim)
    IN  IF Where(m.criteria, LAMBDA c : c.key = key /\ c.id = row.criterion) # {}
        THEN m
        ELSE [m EXCEPT !.criteria =
                Append(@, [key |-> key, id |-> row.criterion,
                           name |-> row.criterionName,
                           verifiedBy |-> IF row.criterionVerified
                                          THEN "verified" ELSE "undefined",
                           verifierName |-> "undefined"])]

\* the body of the first loop
ProcessCriteriaRow(m, row) == WithCriterion(WithClaim(WithProduct(m, row), row), row)

\* the body of the verifier loop: in every claim, the criterion of that id
ProcessVerifierRow(m, row) ==
    [m EXCEPT !.criteria =
       [i \in 1..Len(@) |->
          IF @[i].id = row.criterion
          THEN [@[i] EXCEPT !.verifiedBy = row.verifierId,
                            !.verifierName = row.verifierName]
          ELSE @[i]]]

\* the body of the simple-claims loop
ProcessSimpleRow(m, row) == WithClaim(WithProduct(m, row), row)

\* for (const row of rows): an iteration ends before the next one starts;
\* step is the state of the loop after the iteration for the first row
RECURSIVE FoldCriteria(_, _)
FoldCriteria(m, rows) ==
    IF rows = <<>> THEN m
    ELSE LET step == [maps |-> ProcessCriteriaRow(m, Head(rows)), rest |-> Tail(rows)]
         IN  FoldCriteria(step.maps, step.rest)

RECURSIVE FoldVerifier(_, _)
FoldVerifier(m, rows) ==
    IF rows = <<>> THEN m
    ELSE LET step == [maps |-> ProcessVerifierRow(m, Head(rows)), rest |-> Tail(rows)]
         IN  FoldVerifier(step.maps, step.rest)

RECURSIVE FoldSimple(_, _)
FoldSimple(m, rows) ==
    IF rows = <<>> THEN m
    ELSE LET step == [maps |-> ProcessSimpleRow(m, Head(rows)), rest |-> Tail(rows)]
         IN  FoldSimple(step.maps, step.rest)

\* the entries of a sequence that satisfy a test, in their order
SelectWhere(seq, Test(_)) ==
    LET at == Where(seq, Test)
    IN  [k \in 1..Cardinality(at) |->
           seq[CHOOSE i \in at : Cardinality({j \in at : j < i}) = k - 1]]

\* Array.from(productsMap.values()): each product with the claims pushed
\* onto it, each claim with its criteria
ProductsOf(m) ==
    [i \in 1..Len(m.products) |->
       LET p == m.products[i]
           own == SelectWhere(m.claims, LAMBDA c : c.owner = p.id)
       IN  [id |-> p.id, name |-> p.name, dppId |-> p.dppId,
            claims |->
              [j \in 1..Len(own) |->
                 [id |-> own[j].id, topic |-> own[j].topic,
                  conformance |-> own[j].conformance,
                  verified |-> own[j].verified,
                  criteria |-> SelectWhere(m.criteria,
                                           LAMBDA c : c.key = own[j].key)]]]]

listAllProductClaimCriteria(S) ==
    LET m1 == FoldCriteria(EmptyMaps, RowOrder(CriteriaRows(S)))
        m2 == FoldVerifier(m1, RowOrder(VerifierRows(S)))
        m3 == FoldSimple(m2, RowOrder(SimpleClaimRows(S)))
    IN  ProductsOf(m3)


(***************************************************************************)
(* getUnattestedIssuersForProduct: the credentials the passport depends    *)
(* on, the attestation edges of the store, and the list it returns.        *)
(***************************************************************************)
\* the elements of a sequence
Range(seq) == {seq[i] : i \in 1..Len(seq)}

\* rows of SELECT ?credential WHERE { <dppId> result:claimsAttestedBy ?credential }
CredentialRows(S, dppId) == Obj(S, dppId, "result:claimsAttestedBy")

\* body of the first loop: push a credential id not yet in the list
CollectCredential(credentialIds, credentialId) ==
    IF credentialId # "" /\ credentialId \notin Range(credentialIds)
    THEN Append(credentialIds, credentialId)
    ELSE credentialIds

\* rows of SELECT ?credential ?dia WHERE { ?credential result:issuerIdentityAttestedBy ?dia }
AttestationRows(S) == Pairs(S, "result:issuerIdentityAttestedBy")

\* body of the second loop: attestationChains[credential].push(dia)
AddToChain(attestationChains, row) ==
    IF row[1] \in DOMAIN attestationChains
    THEN [attestationChains EXCEPT ![row[1]] = Append(@, row[2])]
    ELSE [c \in DOMAIN attestationChains \cup {row[1]} |->
            IF c = row[1] THEN <<row[2]>> ELSE attestationChains[c]]

\* attestationChains before the second loop
NoChains == [c \in {} |-> <<>>]

\* a loop that does not move on to the next row
RestOfRowsStuck(rows) == rows

\* what is left of the rows of a loop after its body ran for the first
RestOfRows(rows) == Tail(rows)

\* a return value that follows each chain for one hop only: the issuer of a
\* credential is returned unless one of its anchors has no chain of its own
UnattestedResultOneHop(S, credentialIds, attestationChains) ==
    LET anchors(c) == IF c \in DOMAIN attestationChains
                      THEN Range(attestationChains[c]) ELSE {}
        loose == {c \in Range(credentialIds) :
                    \A d \in anchors(c) : d \in DOMAIN attestationChains}
    IN  RowOrder(UNION {Obj(S, c, "vc:issuer") : c \in loose})

\* the value the function returns once both loops are done
UnattestedResult(S, credentialIds, attestationChains) == <<>>

RECURSIVE FoldCredentials(_, _)
FoldCredentials(credentialIds, rows) ==
    IF rows = <<>> THEN credentialIds
    ELSE FoldCredentials(CollectCredential(credentialIds, Head(rows)), RestOfRows(rows))

RECURSIVE FoldChains(_, _)
FoldChains(attestationChains, rows) ==
    IF rows = <<>> THEN attestationChains
    ELSE FoldChains(AddToChain(attestationChains, Head(rows)), RestOfRows(rows))

\* credentialIds after the first loop: the passport and what attests its claims
DependencySet(S, dppId) == FoldCredentials(<<dppId>>, RowOrder(CredentialRows(S, dppId)))

getUnattestedIssuersForProduct(S, dppId) ==
    UnattestedResult(S, DependencySet(S, dppId),
                     FoldChains(NoChains, RowOrder(AttestationRows(S))))

(***************************************************************************)
(* checkProductClaims: the lines it prints and the summary it returns.     *)
(***************************************************************************)
\* claim.criteria.filter(c => c.verifiedBy).length
VerifiedCriteria(claim) ==
    Cardinality(Where(claim.criteria, LAMBDA c : c.verifiedBy # "undefined"))

\* the line printed for a claim
ClaimLine(product, claim) ==
    [product |-> product.id, claim |-> claim.id, topic |-> claim.topic,
     verified |-> claim.verified,
     verifiedCriteria |-> VerifiedCriteria(claim),
     totalCriteria |-> Len(claim.criteria)]

\* the claim lines of all products, in order
RECURSIVE ClaimLines(_)
ClaimLines(products) ==
    IF products = <<>> THEN <<>>
    ELSE [j \in 1..Len(Head(products).claims) |->
             ClaimLine(Head(products), Head(products).claims[j])]
           \o ClaimLines(Tail(products))

checkProductClaims(S) ==
    LET products == listAllProductClaimCriteria(S)
        lines == ClaimLines(products)
        totalClaims == Len(lines)
        verifiedClaims == Cardinality(Where(lines, LAMBDA l : l.verified))
    IN  [valid |-> verifiedClaims = totalClaims /\ totalClaims > 0,
         verifiedClaims |-> verifiedClaims,
         totalClaims |-> totalClaims,
         products |-> products,
         claims |-> lines,
         unattestedIssuers |->
            [i \in 1..Len(products) |->
               [product |-> products[i].id, dppId |-> products[i].dppId,
                issuers |-> getUnattestedIssuersForProduct(S, products[i].dppId)]]]

(***************************************************************************)
(* runInferences as one function of the store: every rule file in sorted   *)
(* order, until one throws.                                                *)
(***************************************************************************)
RECURSIVE ApplyRuleFiles(_, _, _, _, _)
ApplyRuleFiles(S, storeAtStart, ruleFiles, existing, catalogFiles) ==
    IF ruleFiles = <<>> THEN [store |-> S, returned |-> "true"]
    ELSE LET res == executeQuery(InferenceFilePath(Head(ruleFiles)),
                                 RuleInput(S, storeAtStart), existing, catalogFiles)
         IN  IF res.threw THEN [store |-> S, returned |-> "false"]
             ELSE ApplyRuleFiles(addQuads(S, res.quads), storeAtStart,
                                 Tail(ruleFiles), existing, catalogFiles)

runInferences(S, existing, catalogFiles) ==
    ApplyRuleFiles(S, S, ListRuleFiles(catalogFiles), existing, catalogFiles)

(***************************************************************************)
(* State.                                                                  *)
(***************************************************************************)
VARIABLES
    store,             \* the N3 Store: a set of quads
    inputs,            \* createRDFGraph: the paths of parsedData
    results,           \* createRDFGraph: the result entry of each path done
    ingested,          \* documents added to the store
    catalog,           \* files of the inferences directory
    fsFiles,           \* paths of the files that exist
    pc,                \* "idle", or the position inside runInferences
    files,             \* runInferences: the sorted rule files
    idx,               \* runInferences: index of the current file
    quadsArg,          \* runInferences: quads handed to executeQuery
    inferenceResults,  \* runInferences: quads executeQuery returned
    result,            \* value the last runInferences call returned
    runs,              \* number of runInferences calls started
    runStart,          \* the store when the current call started
    added,             \* quads the rule files of the current call returned
    evaluated,         \* rule files handed to executeQuery in this call
    late,              \* documents added after the first runInferences call
    report,            \* <<r>> when checkProductClaims has just returned r
    wpc,               \* position inside getUnattestedIssuersForProduct
    wDpp,              \* its dppId argument
    wRows,             \* rows of the current query not yet processed
    credentialIds,     \* its list of credential ids
    attestationChains, \* its map from credential to anchors
    unattested,        \* the list it returned
    cpc,               \* position inside runCLI / tier3ChecksForGraph
    entry,             \* the function called: "cli", "tier3" or "none"
    argv,              \* runCLI: the files of the command line
    saveGraph,         \* the --save-graph option
    reachable,         \* schema URLs the schema loader can fetch
    filesData,         \* paths of the parsed data handed to a tier
    tiers,             \* the summaries the tiers have returned, in order
    checks,            \* results the core validators have returned
    exitCode,          \* <<c>> when process.exit(c) was called
    saved              \* <<text>> when saveGraphToFiles wrote the file

vars == <<store, inputs, results, ingested, catalog, fsFiles, pc, files, idx, quadsArg,
          inferenceResults, result, runs, runStart, added, evaluated, late,
          report, wpc, wDpp, wRows, credentialIds, attestationChains,
          unattested, cpc, entry, argv, saveGraph, reachable, filesData,
          tiers, checks, exitCode, saved>>

\* the variables of the run environment, which no action changes
env == <<inputs, catalog, fsFiles>>

\* what createRDFGraph has done so far
ingest == <<results, ingested>>

\* results before the first document
NoResults == [d \in {} |-> DocResult(d)]

\* the variables a runInferences call works on, besides the store
call == <<files, idx, quadsArg, inferenceResults, result, runs, runStart,
          added, evaluated>>

\* the variables of a getUnattestedIssuersForProduct call
walk == <<wpc, wDpp, wRows, credentialIds, attestationChains, unattested>>

\* the variables of a command-line run
cli == <<cpc, entry, argv, saveGraph, reachable, filesData, tiers, checks,
         exitCode, saved>>

\* no command-line run under way
CliOff ==
    /\ cpc = "off"
    /\ entry = "none"
    /\ argv = <<>>
    /\ saveGraph = FALSE
    /\ reachable = {}
    /\ filesData = {}
    /\ tiers = <<>>
    /\ checks = {}
    /\ exitCode = <<>>
    /\ saved = <<>>

\* no call of getUnattestedIssuersForProduct under way
WalkIdle ==
    /\ wpc = "idle"
    /\ wDpp = ""
    /\ wRows = <<>>
    /\ credentialIds = <<>>
    /\ attestationChains = NoChains
    /\ unattested = <<>>

Init ==
    /\ WalkIdle
    /\ CliOff
    /\ store = {}
    /\ inputs = Documents
    /\ results = NoResults
    /\ ingested = {}
    /\ catalog \in Catalogs
    /\ \E extra \in SUBSET ExtraQueryFiles(catalog) :
          fsFiles = CheckoutFiles(catalog) \cup extra
    /\ pc = "idle"
    /\ files = <<>>
    /\ idx = 1
    /\ quadsArg = {}
    /\ inferenceResults = {}
    /\ result = "none"
    /\ runs = 0
    /\ runStart = {}
    /\ added = {}
    /\ evaluated = <<>>
    /\ late = 0
    /\ report = <<>>

\* createRDFGraph, one document of the loop
Ingest(d) ==
    /\ pc = "idle"
    /\ d \in inputs
    /\ d \notin DOMAIN results
    /\ runs > 0 => late < MaxLate
    /\ late' = IF runs > 0 THEN late + 1 ELSE late
    /\ store' = DocStore(store, d)
    /\ results' = [e \in DOMAIN results \cup {d} |->
                      IF e = d THEN DocResult(d) ELSE results[e]]
    /\ ingested' = IF ConversionThrows(d) THEN ingested ELSE ingested \cup {d}
    /\ report' = <<>>
    /\ UNCHANGED <<env, cli, pc, call, walk>>

\* runInferences: list and sort the rule files
StartRun ==
    /\ pc = "idle"
    /\ runs < MaxRuns
    /\ runs' = runs + 1
    /\ files' = ListRuleFiles(catalog)
    /\ idx' = 1
    /\ pc' = "loop"
    /\ runStart' = store
    /\ added' = {}
    /\ evaluated' = <<>>
    /\ quadsArg' = {}
    /\ inferenceResults' = {}
    /\ result' = "running"
    /\ report' = <<>>
    /\ UNCHANGED <<store, ingest, env, cli, late, walk>>

\* an evaluation that puts its results into the store as it finds them and
\* matches the rule on them too
EvaluateRuleStreaming ==
    /\ pc = "loop"
    /\ idx <= Len(files)
    /\ LET input == RuleInput(store, runStart)
           res == executeQuery(InferenceFilePath(files[idx]), input, fsFiles, catalog)
           again == executeQuery(InferenceFilePath(files[idx]), input \cup res.quads,
                                 fsFiles, catalog)
       IN  /\ ~res.threw
           /\ quadsArg' = input
           /\ store' = addQuads(store, res.quads)
           /\ inferenceResults' = res.quads \cup again.quads
    /\ evaluated' = Append(evaluated, files[idx])
    /\ pc' = "add"
    /\ UNCHANGED <<ingest, env, cli, files, idx, result, runs, runStart,
                   added, late, report, walk>>

\* runInferences: executeQuery returns for the current file
EvaluateRule ==
    /\ pc = "loop"
    /\ idx <= Len(files)
    /\ LET input == RuleInput(store, runStart)
           res == executeQuery(InferenceFilePath(files[idx]), input, fsFiles, catalog)
       IN  /\ ~res.threw
           /\ quadsArg' = input
           /\ inferenceResults' = res.quads
    /\ evaluated' = Append(evaluated, files[idx])
    /\ pc' = "add"
    /\ UNCHANGED <<store, ingest, env, cli, files, idx, result, runs, runStart,
                   added, late, report, walk>>

\* a catch block that restores the store of the start of the call
RuleThrowsRollsBack ==
    /\ pc = "loop"
    /\ idx <= Len(files)
    /\ executeQuery(InferenceFilePath(files[idx]), RuleInput(store, runStart),
                    fsFiles, catalog).threw
    /\ evaluated' = Append(evaluated, files[idx])
    /\ result' = "false"
    /\ pc' = "idle"
    /\ store' = runStart
    /\ UNCHANGED <<ingest, env, cli, files, idx, quadsArg, inferenceResults,
                   runs, runStart, added, late, report, walk>>

\* runInferences: executeQuery throws for the current file; the catch
\* block returns false
RuleThrows ==
    /\ pc = "loop"
    /\ idx <= Len(files)
    /\ executeQuery(InferenceFilePath(files[idx]), RuleInput(store, runStart),
                    fsFiles, catalog).threw
    /\ evaluated' = Append(evaluated, files[idx])
    /\ result' = "false"
    /\ pc' = "idle"
    /\ UNCHANGED <<store, ingest, env, cli, files, idx, quadsArg, inferenceResults,
                   runs, runStart, added, late, report, walk>>

\* runInferences: store.addQuads(inferenceResults), next file
AddResults ==
    /\ pc = "add"
    /\ store' = addQuads(store, inferenceResults)
    /\ added' = added \cup inferenceResults
    /\ idx' = idx + 1
    /\ pc' = "loop"
    /\ UNCHANGED <<ingest, env, cli, files, quadsArg, inferenceResults, result,
                   runs, runStart, evaluated, late, report, walk>>

\* a rule file of the list that derives, from the quads S, a quad S lacks
StillDerives(S, ruleFiles, existing, catalogFiles) ==
    \E i \in 1..Len(ruleFiles) :
       LET res == executeQuery(InferenceFilePath(ruleFiles[i]), S, existing,
                               catalogFiles)
       IN  ~res.threw /\ ~(res.quads \subseteq S)

\* a loop that starts over until no rule file derives a new quad
FinishRunToFixpoint ==
    /\ pc = "loop"
    /\ idx > Len(files)
    /\ IF StillDerives(store, files, fsFiles, catalog)
       THEN /\ idx' = 1
            /\ pc' = "loop"
            /\ result' = result
       ELSE /\ idx' = idx
            /\ pc' = "idle"
            /\ result' = "true"
    /\ UNCHANGED <<store, ingest, env, cli, files, quadsArg, inferenceResults,
                   runs, runStart, added, evaluated, late, report, walk>>

\* runInferences: all files done, return true
FinishRun ==
    /\ pc = "loop"
    /\ idx > Len(files)
    /\ result' = "true"
    /\ pc' = "idle"
    /\ UNCHANGED <<store, ingest, env, cli, files, idx, quadsArg, inferenceResults,
                   runs, runStart, added, evaluated, late, report,
                   walk>>

\* tier3ChecksForGraph: checkProductClaims on the store runInferences has
\* worked on
CheckProductClaims ==
    /\ pc = "idle"
    /\ result \in {"true", "false"}
    /\ report = <<>>
    /\ report' = <<checkProductClaims(store)>>
    /\ UNCHANGED <<store, ingest, env, cli, pc, call, late, walk>>

Next ==
    \/ \E d \in Documents : Ingest(d)
    \/ StartRun
    \/ EvaluateRule
    \/ RuleThrows
    \/ AddResults
    \/ FinishRun
    \/ CheckProductClaims

Spec == Init /\ [][Next]_vars

(***************************************************************************)
(* getUnattestedIssuersForProduct, step by step, on the stores a Tier 3    *)
(* run leaves: any set of documents, with the rules applied or not.        *)
(***************************************************************************)
\* the store createRDFGraph builds from a set of documents
GraphOf(docs) == UNION {parsedDataToNQuads(d) : d \in docs}

InitIssuers ==
    /\ ingested \in SUBSET (Documents \cup AnchorDocuments)
    /\ inputs = ingested
    /\ results = [d \in ingested |-> DocResult(d)]
    /\ catalog = ShippedCatalog
    /\ fsFiles \in {CheckoutFiles(catalog),
                    CheckoutFiles(catalog) \cup ExtraQueryFiles(catalog)}
    /\ runStart = GraphOf(ingested)
    /\ store = runInferences(runStart, fsFiles, catalog).store
    /\ result = runInferences(runStart, fsFiles, catalog).returned
    /\ pc = "idle"
    /\ files = ListRuleFiles(catalog)
    /\ idx = 1
    /\ quadsArg = {}
    /\ inferenceResults = {}
    /\ runs = 1
    /\ added = store \ runStart
    /\ evaluated = <<>>
    /\ late = 0
    /\ report = <<>>
    /\ WalkIdle
    /\ CliOff

\* the call, for the passport of a product of the store; the first query
WalkStart(dppId) ==
    /\ wpc = "idle"
    /\ dppId \in OfType(store, "dpp:DigitalProductPassport")
    /\ wDpp' = dppId
    /\ wRows' = RowOrder(CredentialRows(store, dppId))
    /\ credentialIds' = <<dppId>>
    /\ wpc' = "collect"
    /\ UNCHANGED <<store, ingest, env, cli, pc, call, late, report,
                   attestationChains, unattested>>

\* one binding of the first loop
WalkCollect ==
    /\ wpc = "collect"
    /\ wRows # <<>>
    /\ credentialIds' = CollectCredential(credentialIds, Head(wRows))
    /\ wRows' = RestOfRows(wRows)
    /\ UNCHANGED <<store, ingest, env, cli, pc, call, late, report, wpc, wDpp,
                   attestationChains, unattested>>

\* the first loop is done; the second query
WalkQueryChains ==
    /\ wpc = "collect"
    /\ wRows = <<>>
    /\ wRows' = RowOrder(AttestationRows(store))
    /\ attestationChains' = NoChains
    /\ wpc' = "chains"
    /\ UNCHANGED <<store, ingest, env, cli, pc, call, late, report, wDpp,
                   credentialIds, unattested>>

\* one binding of the second loop
WalkChain ==
    /\ wpc = "chains"
    /\ wRows # <<>>
    /\ attestationChains' = AddToChain(attestationChains, Head(wRows))
    /\ wRows' = RestOfRows(wRows)
    /\ UNCHANGED <<store, ingest, env, cli, pc, call, late, report, wpc, wDpp,
                   credentialIds, unattested>>

\* the second loop is done; return
WalkReturn ==
    /\ wpc = "chains"
    /\ wRows = <<>>
    /\ unattested' = UnattestedResult(store, credentialIds, attestationChains)
    /\ wpc' = "done"
    /\ UNCHANGED <<store, ingest, env, cli, pc, call, late, report, wDpp, wRows,
                   credentialIds, attestationChains>>

NextIssuers ==
    \/ \E dppId \in {DppSimpleId, DppPlainId} : WalkStart(dppId)
    \/ WalkCollect
    \/ WalkQueryChains
    \/ WalkChain
    \/ WalkReturn

SpecIssuers == InitIssuers /\ [][NextIssuers]_vars

\* the call is not suspended for ever: each await resolves
FairSpecIssuers == SpecIssuers /\ WF_vars(NextIssuers)

(***************************************************************************)
(* listAllProductClaimCriteria and checkProductClaims on the stores a Tier *)
(* 3 run leaves for any set of passports and conformity credentials.       *)
(***************************************************************************)
ResolverDocuments ==
    { DppSimpleId, DccSimpleId, DccPackId } \cup PassportDocuments

InitResolver ==
    /\ ingested \in SUBSET ResolverDocuments
    /\ inputs = ingested
    /\ results = [d \in ingested |-> DocResult(d)]
    /\ catalog = ShippedCatalog
    /\ fsFiles \in {CheckoutFiles(catalog),
                    CheckoutFiles(catalog) \cup ExtraQueryFiles(catalog)}
    /\ runStart = GraphOf(ingested)
    /\ store = runInferences(runStart, fsFiles, catalog).store
    /\ result = runInferences(runStart, fsFiles, catalog).returned
    /\ pc = "idle"
    /\ files = ListRuleFiles(catalog)
    /\ idx = 1
    /\ quadsArg = {}
    /\ inferenceResults = {}
    /\ runs = 1
    /\ added = store \ runStart
    /\ evaluated = <<>>
    /\ late = 0
    /\ report = <<>>
    /\ WalkIdle
    /\ CliOff

NextResolver == CheckProductClaims

SpecResolver == InitResolver /\ [][NextResolver]_vars

(***************************************************************************)
(* createRDFGraph on any set of documents, some of which cannot be         *)
(* converted to quads.                                                     *)
(***************************************************************************)
InitIngest ==
    /\ WalkIdle
    /\ CliOff
    /\ store = {}
    /\ inputs \in SUBSET (Documents \cup BadDocuments)
    /\ results = NoResults
    /\ ingested = {}
    /\ catalog = ShippedCatalog
    /\ fsFiles = CheckoutFiles(catalog)
    /\ pc = "idle"
    /\ files = <<>>
    /\ idx = 1
    /\ quadsArg = {}
    /\ inferenceResults = {}
    /\ result = "none"
    /\ runs = 0
    /\ runStart = {}
    /\ added = {}
    /\ evaluated = <<>>
    /\ late = 0
    /\ report = <<>>

NextIngest == \E d \in Documents \cup BadDocuments : Ingest(d)

SpecIngest == InitIngest /\ [][NextIngest]_vars

(***************************************************************************)
(* The core validators of Tier 1 and Tier 2.  A file is named by its path; *)
(* what the validators find in it is given by the predicates below.        *)
(***************************************************************************)
\* number of files on the command line
MaxFiles == 2

MissingPath == "file://credentials/missing.json"
NotJsonPath == "file://credentials/truncated.json"
NotVcPath   == "file://credentials/plain-jsonld.json"

\* the files a command line can name
CliPaths == { DppSimpleId, DccSimpleId, MissingPath, NotJsonPath, BadContextId,
              NotVcPath, DppBrokenId, DccBrokenId }

\* fs.existsSync(filePath), and the file can be read
Exists(filePath) == filePath # MissingPath

\* JSON.parse(input) returns
JsonParses(input) == input # NotJsonPath

\* jsonld.expand(credential, {safe: true}) returns
Expands(credential) == credential # BadContextId

\* the W3C schema accepts the credential
VcConforms(credential) == credential # NotVcPath

\* the UNTP schema of the credential's type and version accepts it
UntpConforms(credential) == credential \notin {DppBrokenId, DccBrokenId}

\* the credential is of a type of the CredentialType enumeration
RecognisedType(credential) ==
    credential \in {DppSimpleId, DppBrokenId, DccSimpleId, DccBrokenId}

VERIFIABLE_CREDENTIAL_SCHEMA_URL == "verifiable-credential-schema.json"

\* extractDPPVersion: the version in a context URL of the form
\* https://test.uncefact.org/vocabulary/untp/dpp/<version>/, or null
extractDPPVersion(credential) ==
    IF credential \in {DppSimpleId, DppBrokenId} THEN "0.6.0-beta12" ELSE "null"

\* getSchemaUrlForCredential
getSchemaUrlForCredential(credential) ==
    IF extractDPPVersion(credential) = "null" THEN "null"
    ELSE "untp-dpp-schema-" \o extractDPPVersion(credential) \o ".json"

\* the sets of schema URLs a run may be able to load
SchemaSets ==
    { {VERIFIABLE_CREDENTIAL_SCHEMA_URL, "untp-dpp-schema-0.6.0-beta12.json"},
      {VERIFIABLE_CREDENTIAL_SCHEMA_URL},
      {} }

\* validate(jsonData) of the validator compiled for a schema
Validates(jsonData, schemaUrl) ==
    IF schemaUrl = VERIFIABLE_CREDENTIAL_SCHEMA_URL THEN VcConforms(jsonData)
    ELSE UntpConforms(jsonData)

\* a ValidationResult
ValidationResult(valid, errors, warnings) ==
    [valid |-> valid, errors |-> errors, warnings |-> warnings]

validateJSON(input) ==
    IF JsonParses(input) THEN ValidationResult(TRUE, <<>>, <<>>)
    ELSE ValidationResult(FALSE, <<"INVALID_JSON">>, <<>>)

validateJSONLD(credential) ==
    IF Expands(credential) THEN ValidationResult(TRUE, <<>>, <<>>)
    ELSE ValidationResult(FALSE, <<"INVALID_JSONLD">>, <<>>)

\* loadable: the schema URLs getValidator can compile; for any other it throws
validateJsonAgainstSchema(jsonData, schemaUrl, loadable) ==
    IF schemaUrl \notin loadable
    THEN ValidationResult(FALSE, <<"SCHEMA_VALIDATION_FAILED">>, <<>>)
    ELSE IF Validates(jsonData, schemaUrl)
         THEN ValidationResult(TRUE, <<>>, <<>>)
         ELSE ValidationResult(FALSE, <<"SCHEMA_VALIDATION_ERROR">>, <<>>)

validateVerifiableCredential(credential, loadable) ==
    validateJsonAgainstSchema(credential, VERIFIABLE_CREDENTIAL_SCHEMA_URL, loadable)

\* the catch block adds an error and leaves valid as it is
validateUNTPCredential(credential, loadable) ==
    LET schemaUrl == getSchemaUrlForCredential(credential)
    IN  IF schemaUrl = "null"
        THEN ValidationResult(TRUE, <<>>, <<"SCHEMA_NOT_FOUND">>)
        ELSE IF schemaUrl \notin loadable
             THEN ValidationResult(TRUE, <<"SCHEMA_VALIDATION_FAILED">>, <<>>)
             ELSE IF Validates(credential, schemaUrl)
                  THEN ValidationResult(TRUE, <<>>, <<>>)
                  ELSE ValidationResult(FALSE, <<"SCHEMA_VALIDATION_ERROR">>, <<>>)

\* a result a validator has returned for a file
Check(validator, filePath, r) ==
    [validator |-> validator, file |-> filePath, result |-> r]

\* tier1ChecksForFile: whether the file passed, and the results returned
tier1ChecksForFile(filePath, loadable) ==
    LET json == Check("validateJSON", filePath, validateJSON(filePath))
        jsonld == Check("validateJSONLD", filePath, validateJSONLD(filePath))
        vc == Check("validateVerifiableCredential", filePath,
                    validateVerifiableCredential(filePath, loadable))
    IN  IF ~Exists(filePath) THEN [valid |-> FALSE, checks |-> {}]
        ELSE IF ~json.result.valid THEN [valid |-> FALSE, checks |-> {json}]
        ELSE IF ~jsonld.result.valid THEN [valid |-> FALSE, checks |-> {json, jsonld}]
        ELSE [valid |-> vc.result.valid, checks |-> {json, jsonld, vc}]

\* tier1ChecksForFiles: one count per entry of the list, one data entry per
\* path
tier1ChecksForFiles(filePaths, loadable) ==
    LET passed == {i \in 1..Len(filePaths) :
                     tier1ChecksForFile(filePaths[i], loadable).valid}
    IN  [validFiles |-> Cardinality(passed),
         totalFiles |-> Len(filePaths),
         data |-> {filePaths[i] : i \in passed},
         checks |-> UNION {tier1ChecksForFile(filePaths[i], loadable).checks :
                             i \in 1..Len(filePaths)}]

\* tier2ChecksForFiles
tier2ChecksForFiles(data, loadable) ==
    [validFiles |-> Cardinality({f \in data :
                                   validateUNTPCredential(f, loadable).valid}),
     totalFiles |-> Cardinality(data),
     checks |-> {Check("validateUNTPCredential", f,
                       validateUNTPCredential(f, loadable)) : f \in data}]

\* the counts a tier returns
Summary(tier, validFiles, totalFiles) ==
    [tier |-> tier, validFiles |-> validFiles, totalFiles |-> totalFiles]

\* a gate that lets a run with one valid file go on
AllPassedSome(summary) == summary.validFiles > 0

\* runCLI: validFiles === totalFiles
AllPassed(summary) == summary.validFiles = summary.totalFiles

\* a gate that lets a run go on without the files that failed
AnalysisAllowedPartly(validFiles, totalFiles) == validFiles > 0

\* tier3ChecksForGraph: validFiles === totalFiles && validFiles > 0
AnalysisAllowed(validFiles, totalFiles) ==
    validFiles = totalFiles /\ validFiles > 0

\* saveGraphToFiles: the text written to credential-graph.n3
saveGraphToFiles(S) == WriteN3(S)

\* results.filter(valid).length and Object.keys(results).length
ValidResults(res) == Cardinality({d \in DOMAIN res : res[d].valid})
TotalResults(res) == Cardinality(DOMAIN res)

(***************************************************************************)
(* runCLI, tier by tier, and tier3ChecksForGraph called on its own.        *)
(***************************************************************************)
\* all lists of at most n elements of S
SeqsUpTo(S, n) == UNION {[1..k -> S] : k \in 0..n}

\* the parsed data tier3ChecksForGraph is handed when it is called on its own
Tier3Inputs == { DppSimpleId, DccSimpleId, DccFailedId, BadContextId, NullDataPath }

InitCLI ==
    /\ WalkIdle
    /\ store = {}
    /\ inputs = {}
    /\ results = NoResults
    /\ ingested = {}
    /\ catalog = ShippedCatalog
    /\ fsFiles \in {CheckoutFiles(catalog),
                    CheckoutFiles(catalog) \cup ExtraQueryFiles(catalog)}
    /\ pc = "idle"
    /\ files = <<>>
    /\ idx = 1
    /\ quadsArg = {}
    /\ inferenceResults = {}
    /\ result = "none"
    /\ runs = 0
    /\ runStart = {}
    /\ added = {}
    /\ evaluated = <<>>
    /\ late = 0
    /\ report = <<>>
    /\ saveGraph \in BOOLEAN
    /\ \/ /\ entry = "cli"
          /\ cpc = "start"
          /\ argv \in SeqsUpTo(CliPaths, MaxFiles)
          /\ reachable \in SchemaSets
          /\ filesData = {}
       \/ /\ entry = "tier3"
          /\ cpc = "tier3"
          /\ argv = <<>>
          /\ reachable = {}
          /\ filesData \in SUBSET Tier3Inputs
    /\ tiers = <<>>
    /\ checks = {}
    /\ exitCode = <<>>
    /\ saved = <<>>

\* runCLI: no file to validate
CliNoFiles ==
    /\ cpc = "start"
    /\ argv = <<>>
    /\ exitCode' = <<1>>
    /\ cpc' = "exit"
    /\ UNCHANGED <<store, ingest, env, pc, call, late, report, walk, entry, argv,
                   saveGraph, reachable, filesData, tiers, checks, saved>>

\* runCLI: Tier 1 on all files, and the test of its counts
CliTier1 ==
    /\ cpc = "start"
    /\ argv # <<>>
    /\ LET t == tier1ChecksForFiles(argv, reachable)
           summary == Summary(1, t.validFiles, t.totalFiles)
       IN  /\ tiers' = Append(tiers, summary)
           /\ checks' = checks \cup t.checks
           /\ IF AllPassed(summary)
              THEN /\ filesData' = t.data
                   /\ cpc' = "tier2"
                   /\ exitCode' = exitCode
              ELSE /\ filesData' = filesData
                   /\ cpc' = "exit"
                   /\ exitCode' = <<1>>
    /\ UNCHANGED <<store, ingest, env, pc, call, late, report, walk, entry, argv,
                   saveGraph, reachable, saved>>

\* runCLI: Tier 2 on the data of Tier 1, and the test of its counts
CliTier2 ==
    /\ cpc = "tier2"
    /\ LET t == tier2ChecksForFiles(filesData, reachable)
           summary == Summary(2, t.validFiles, t.totalFiles)
       IN  /\ tiers' = Append(tiers, summary)
           /\ checks' = checks \cup t.checks
           /\ IF AllPassed(summary)
              THEN /\ cpc' = "tier3"
                   /\ exitCode' = exitCode
              ELSE /\ cpc' = "exit"
                   /\ exitCode' = <<1>>
    /\ UNCHANGED <<store, ingest, env, pc, call, late, report, walk, entry, argv,
                   saveGraph, reachable, filesData, saved>>

\* tier3ChecksForGraph: createRDFGraph(filesData)
Tier3CreateGraph ==
    /\ cpc = "tier3"
    /\ inputs' = filesData
    /\ results' = [d \in filesData |-> DocResult(d)]
    /\ ingested' = {d \in filesData : ~ConversionThrows(d)}
    /\ store' = GraphOf(ingested')
    /\ cpc' = IF saveGraph THEN "save" ELSE "count"
    /\ UNCHANGED <<catalog, fsFiles, pc, call, late, report, walk, entry, argv,
                   saveGraph, reachable, filesData, tiers, checks, exitCode,
                   saved>>

\* a writer that takes the quads it has written out of the store
Tier3SaveGraphMoving ==
    /\ cpc = "save"
    /\ \E wrote \in BOOLEAN :
          /\ saved' = IF wrote THEN <<saveGraphToFiles(store)>> ELSE <<>>
          /\ store' = IF wrote THEN {} ELSE store
    /\ cpc' = "count"
    /\ UNCHANGED <<ingest, env, pc, call, late, report, walk, entry, argv,
                   saveGraph, reachable, filesData, tiers, checks, exitCode>>

\* tier3ChecksForGraph: saveGraphToFiles(store) writes the file, or throws
\* and the error is printed
Tier3SaveGraph ==
    /\ cpc = "save"
    /\ \E wrote \in BOOLEAN :
          saved' = IF wrote THEN <<saveGraphToFiles(store)>> ELSE <<>>
    /\ cpc' = "count"
    /\ UNCHANGED <<store, ingest, env, pc, call, late, report, walk, entry, argv,
                   saveGraph, reachable, filesData, tiers, checks, exitCode>>

\* a run that writes the file again once the rules have been applied
Tier3RunInferencesSaving ==
    /\ cpc = "count"
    /\ AnalysisAllowed(ValidResults(results), TotalResults(results))
    /\ LET r == runInferences(store, fsFiles, catalog)
       IN  /\ store' = r.store
           /\ result' = r.returned
           /\ added' = r.store \ store
           /\ saved' = IF saveGraph THEN <<saveGraphToFiles(r.store)>> ELSE saved
    /\ runStart' = store
    /\ runs' = runs + 1
    /\ cpc' = "claims"
    /\ UNCHANGED <<ingest, env, pc, files, idx, quadsArg, inferenceResults,
                   evaluated, late, report, walk, entry, argv, saveGraph,
                   reachable, filesData, tiers, checks, exitCode>>

\* tier3ChecksForGraph: all files are in the graph; runInferences(store)
Tier3RunInferences ==
    /\ cpc = "count"
    /\ AnalysisAllowed(ValidResults(results), TotalResults(results))
    /\ LET r == runInferences(store, fsFiles, catalog)
       IN  /\ store' = r.store
           /\ result' = r.returned
           /\ added' = r.store \ store
    /\ runStart' = store
    /\ runs' = runs + 1
    /\ cpc' = "claims"
    /\ UNCHANGED <<ingest, env, pc, files, idx, quadsArg, inferenceResults,
                   evaluated, late, report, walk, entry, argv, saveGraph,
                   reachable, filesData, tiers, checks, exitCode, saved>>

\* tier3ChecksForGraph: checkProductClaims(store), and the return
Tier3CheckClaims ==
    /\ cpc = "claims"
    /\ report' = <<checkProductClaims(store)>>
    /\ tiers' = Append(tiers, Summary(3, ValidResults(results), TotalResults(results)))
    /\ cpc' = "return"
    /\ UNCHANGED <<store, ingest, env, pc, call, late, walk, entry, argv,
                   saveGraph, reachable, filesData, checks, exitCode, saved>>

\* tier3ChecksForGraph: the graph analysis is skipped, and the return
Tier3Skip ==
    /\ cpc = "count"
    /\ ~AnalysisAllowed(ValidResults(results), TotalResults(results))
    /\ tiers' = Append(tiers, Summary(3, ValidResults(results), TotalResults(results)))
    /\ cpc' = "return"
    /\ UNCHANGED <<store, ingest, env, pc, call, late, report, walk, entry, argv,
                   saveGraph, reachable, filesData, checks, exitCode, saved>>

\* runCLI: the test of the counts of Tier 3, and process.exit
CliExit ==
    /\ cpc = "return"
    /\ entry = "cli"
    /\ exitCode' = IF AllPassed(tiers[Len(tiers)]) THEN <<0>> ELSE <<1>>
    /\ cpc' = "exit"
    /\ UNCHANGED <<store, ingest, env, pc, call, late, report, walk, entry, argv,
                   saveGraph, reachable, filesData, tiers, checks, saved>>

NextCLI ==
    \/ CliNoFiles
    \/ CliTier1
    \/ CliTier2
    \/ Tier3CreateGraph
    \/ Tier3SaveGraph
    \/ Tier3RunInferences
    \/ Tier3CheckClaims
    \/ Tier3Skip
    \/ CliExit

SpecCLI == InitCLI /\ [][NextCLI]_vars

(***************************************************************************)
(* Notions the properties below are stated with.                           *)
(***************************************************************************)
\* the last runInferences call started on all the documents of the store
FreshRun == GraphOf(ingested) \subseteq runStart

\* a conformity credential of S attests the criterion for the claim's
\* product and topic, with conformance true
HasVerifyingAttestation(S, claim, criterion) ==
    \E dpp \in OfType(S, "dpp:DigitalProductPassport") :
    \E dcc \in OfType(S, "dcc:DigitalConformityCredential") :
       Rule10Holds(S, dpp, claim, criterion, dcc)

\* a conformity credential of S attests the topic for the product, with
\* conformance true
HasTopicAttestation(S, product, topic) ==
    \E dcc \in OfType(S, "dcc:DigitalConformityCredential") :
    \E dccSubject \in Obj(S, dcc, "vc:credentialSubject") :
    \E assessment \in Obj(S, dccSubject, "dcc:assessment") :
       /\ \E assessed \in Obj(S, assessment, "dcc:assessedProduct") :
             product \in Obj(S, assessed, "untp:Product")
       /\ topic \in Obj(S, assessment, "untp:conformityTopic")
       /\ "true" \in Obj(S, assessment, "untp:conformance")

\* the claims of a list of products, each with the id of its product
ListedClaims(products) ==
    UNION { { [product |-> products[i].id, claim |-> products[i].claims[j]] :
              j \in 1..Len(products[i].claims) } : i \in 1..Len(products) }

\* the anchors that attest the issuer of a credential or anchor
AttestedBy(S, c) == Obj(S, c, "result:issuerIdentityAttestedBy")

\* what can be reached from a set of anchors over attestation edges
RECURSIVE ReachFrom(_, _)
ReachFrom(S, anchors) ==
    LET more == anchors \cup UNION {AttestedBy(S, d) : d \in anchors}
    IN  IF more = anchors THEN anchors ELSE ReachFrom(S, more)

\* the anchors on the attestation chains of a credential
ChainOf(S, c) == ReachFrom(S, AttestedBy(S, c))

\* an anchor whose own issuer needs no further attestation: a chain ends there
Terminating(S, d) == AttestedBy(S, d) = {}

\* the chain of the credential reaches an anchor where it ends
ChainTerminates(S, c) == \E d \in ChainOf(S, c) : Terminating(S, d)

\* the chain of the credential runs into a cycle
ChainCycles(S, c) == \E d \in ChainOf(S, c) : d \in ChainOf(S, d)

\* the dependency set of a passport: itself and what attests its claims
Dependencies(S, dppId) == {dppId} \cup Obj(S, dppId, "result:claimsAttestedBy")

(***************************************************************************)
(* Properties.                                                             *)
(***************************************************************************)

\* C1: in the report of a run on the shipped catalog, a claim with one or
\* more criteria is verified iff every criterion listed under it has a
\* verifying attestation.
C1_VerifiedIffAllCriteriaAttested ==
    (report # <<>> /\ FreshRun /\ catalog = ShippedCatalog) =>
       \A e \in ListedClaims(report[1].products) :
          Len(e.claim.criteria) >= 1 =>
             (e.claim.verified <=>
                \A c \in Range(e.claim.criteria) :
                   HasVerifyingAttestation(store, e.claim.id, c.id))

\* C2: on the shipped passport and conformity credential, the Tier 3 run
\* reports the emissions claim unverified with 1 of 2 criteria, the waste
\* claim verified with 2 of 2, 2 claims in total and 1 verified.
C2_ShippedExampleReport ==
    (report # <<>> /\ FreshRun /\ catalog = ShippedCatalog
        /\ ingested = {DppSimpleId, DccSimpleId}) =>
       /\ report[1].totalClaims = 2
       /\ report[1].verifiedClaims = 1
       /\ \E l \in Range(report[1].claims) :
             /\ l.topic = Emissions
             /\ ~l.verified
             /\ l.verifiedCriteria = 1 /\ l.totalCriteria = 2
       /\ \E l \in Range(report[1].claims) :
             /\ l.topic = Waste
             /\ l.verified
             /\ l.verifiedCriteria = 2 /\ l.totalCriteria = 2

\* C3: a claim with no criteria is reported verified only if a conformity
\* credential of the store attests its product and topic with conformance
\* true.
C3_SimpleClaimNeedsAttestation ==
    report # <<>> =>
       \A e \in ListedClaims(report[1].products) :
          (Len(e.claim.criteria) = 0 /\ e.claim.verified) =>
             HasTopicAttestation(store, e.product, e.claim.topic)

\* C4: the returned list holds the issuer of every credential of the
\* passport's dependency set whose attestation chain reaches no anchor
\* where it ends, so of every such credential without any attestation edge.
C4_UntracedIssuersReturned ==
    wpc = "done" =>
       \A c \in Dependencies(store, wDpp) :
          ~ChainTerminates(store, c) =>
             Obj(store, c, "vc:issuer") \subseteq Range(unattested)

\* C5: the issuer of a credential of the dependency set whose attestation
\* chain cycles and reaches no anchor where it ends is in the returned list.
C5_CycleIsUnattested ==
    wpc = "done" =>
       \A c \in Dependencies(store, wDpp) :
          (ChainCycles(store, c) /\ ~ChainTerminates(store, c)) =>
             Obj(store, c, "vc:issuer") \subseteq Range(unattested)

\* C6: the issuer of a credential of the dependency set that is attested by
\* an anchor Y, whose issuer is attested by an anchor Z where the chain
\* ends, is not in the returned list.
TwoHopChain(S, c) ==
    \E y \in AttestedBy(S, c) : \E z \in AttestedBy(S, y) :
       z # y /\ Terminating(S, z)

C6_MultiHopIsAttested ==
    wpc = "done" =>
       \A c \in Dependencies(store, wDpp) :
          TwoHopChain(store, c) =>
             Obj(store, c, "vc:issuer") \cap Range(unattested) = {}

C6_Witness ==
    /\ wpc = "done"
    /\ \E c \in Dependencies(store, wDpp) \ {wDpp} : TwoHopChain(store, c)

\* C7: every call of getUnattestedIssuersForProduct returns, also on a
\* store whose attestation edges form a cycle or a self-loop.
C7_WalkTerminates == (wpc = "collect") ~> (wpc = "done")

C7_Witness ==
    /\ wpc = "done"
    /\ \E d \in OfType(store, "dia:DigitalIdentityAnchor") : d \in AttestedBy(store, d)
    /\ \E c \in Range(credentialIds) : ChainCycles(store, c)

\* C8: a rule file is handed to the reasoner only after every rule file of
\* the catalog with a smaller numeric prefix.
C8_NumericPrefixOrder ==
    \A k \in 1..Len(evaluated) :
       \A f \in {g \in catalog : g.ext = ".n3"} :
          f.prefix < evaluated[k].prefix =>
             \E i \in 1..(k - 1) : evaluated[i] = f

\* C9: the quads a rule file is evaluated on are the store as it stands:
\* the quads at the start of the call and every quad the earlier rule
\* files of the call returned.
C9_InputIsCurrentStore ==
    pc = "add" => /\ quadsArg = runStart \cup added
                  /\ quadsArg = store

\* a rule derived allCriteriaVerified from verifiedCriterion facts that an
\* earlier rule of the same call derived
C9_Witness ==
    /\ pc = "add"
    /\ \E q \in inferenceResults :
          /\ q[2] = "result:allCriteriaVerified"
          /\ \E c \in Obj(quadsArg, q[1], "untp:Criterion") :
                T(q[1], "result:verifiedCriterion", c) \in added \ runStart

\* C10: no step of runInferences removes a quad, and the store keeps every
\* quad it held when the call started.
C10_Monotonic ==
    [][/\ pc # "idle" => store \subseteq store'
       /\ runStart' \subseteq store']_vars

\* a call that added quads and then failed
C10_Witness ==
    /\ pc = "idle"
    /\ result = "false"
    /\ added \ runStart # {}
    /\ runStart \cup added \subseteq store

\* the store is what a successful runInferences call left: nothing was added
\* to it since
AfterSuccessfulRun ==
    /\ pc = "idle"
    /\ result = "true"
    /\ store = runStart \cup added

\* C11: a second runInferences call on the store a first successful call
\* produced adds no quad.
C11_Idempotent ==
    AfterSuccessfulRun => runInferences(store, fsFiles, catalog).store = store

\* the current rule file is one for which executeQuery throws
CurrentRuleThrows ==
    /\ pc = "loop"
    /\ idx <= Len(files)
    /\ executeQuery(InferenceFilePath(files[idx]), RuleInput(store, runStart),
                    fsFiles, catalog).threw

\* C12: when the k-th rule file throws, runInferences returns false, no rule
\* file after k is evaluated and every quad the files before k added stays
\* in the store.
C12_FailedRunKeepsFacts ==
    [][CurrentRuleThrows =>
          /\ result' = "false"
          /\ pc' = "idle"
          /\ evaluated' = SubSeq(files, 1, idx)
          /\ runStart \cup added \subseteq store']_vars

\* a call failed at a rule file that is neither the first nor the last,
\* after the files before it added quads
C12_Witness ==
    /\ pc = "idle"
    /\ result = "false"
    /\ 1 < idx /\ idx < Len(files)
    /\ Len(evaluated) = idx
    /\ added \ runStart # {}
    /\ added \subseteq store

\* the reasoner's result for a rule file cannot be turned into quads
CannotBeParsed(f, quads) ==
    LET res == n3reasoner(WriteN3(quads), f.rule)
    IN  res.type # "string" \/ ~res.parses

\* C13: when the reasoner's output for a rule file cannot be turned into
\* quads, the call does not go on to its add step as if the rule had derived
\* nothing, and it does not return true.
C13_RuleErrorsFailTheRun ==
    /\ pc = "add" => ~CannotBeParsed(files[idx], quadsArg)
    /\ (pc = "idle" /\ result = "true") =>
          \A k \in 1..Len(evaluated) : ~CannotBeParsed(evaluated[k], store)

\* C14: after a runInferences call that returned false, the Tier 3 run
\* reports no claim as verified and does not report all claims verified.
C14_NoConclusionsAfterFailedRun ==
    (pc = "idle" /\ result = "false" /\ report # <<>>) =>
       /\ report[1].verifiedClaims = 0
       /\ \A l \in Range(report[1].claims) : ~l.verified
       /\ ~report[1].valid

\* C15: for a catalog of well-formed rule files, every path runInferences
\* hands to executeQuery resolves to that rule file, every rule file is
\* evaluated and the call returns true.
C15_RuleFilesLocated ==
    (pc = "idle" /\ runs > 0 /\ catalog \in {ShippedCatalog, WideCatalog}) =>
       /\ \A k \in 1..Len(files) :
             getQueryFilePath(InferenceFilePath(files[k]), fsFiles)
                = InferenceFilePath(files[k])
       /\ evaluated = files
       /\ result = "true"

\* createRDFGraph has returned: the loop ran for every path
GraphReturned == DOMAIN results = inputs

\* C16: createRDFGraph returns one result entry per input path; a document
\* whose conversion fails gets valid = false with an error and adds no quad,
\* and the quads of every other document are in the store.
C16_IngestErrorsIsolated ==
    /\ DOMAIN results \subseteq inputs
    /\ \A d \in DOMAIN results :
          IF ConversionThrows(d)
          THEN ~results[d].valid /\ results[d].errors # <<>>
          ELSE results[d].valid /\ parsedDataToNQuads(d) \subseteq store
    /\ store = UNION {parsedDataToNQuads(d) :
                        d \in {e \in DOMAIN results : ~ConversionThrows(e)}}
    /\ GraphReturned => \A d \in inputs : d \in DOMAIN results

\* the call returned for documents of which one failed, before and after
\* documents that were converted
C16_Witness ==
    /\ GraphReturned
    /\ \E d \in inputs : ConversionThrows(d)
    /\ Cardinality({d \in inputs : ~ConversionThrows(d)}) >= 2
    /\ store # {}

\* the claims the passports of the store attach to a product
ClaimsOfProduct(S, product) ==
    { b[3] : b \in { c \in OfType(S, "dpp:DigitalProductPassport")
                            \X {p[1] : p \in Pairs(S, "untp:product")}
                            \X {p[2] : p \in Pairs(S, "untp:conformityClaim")} :
                       /\ c[2] \in Obj(S, c[1], "vc:credentialSubject")
                       /\ product \in Obj(S, c[2], "untp:product")
                       /\ c[3] \in Obj(S, c[2], "untp:conformityClaim") } }

\* the products of the passports of the store
ProductsOfStore(S) ==
    UNION { Obj(S, subject, "untp:product") :
              subject \in UNION { Obj(S, dpp, "vc:credentialSubject") :
                                    dpp \in OfType(S, "dpp:DigitalProductPassport") } }

\* C17: every product of a passport of the store is listed, with as many
\* claim entries as its passport subject has distinct claims, each of them
\* listed under it.
C17_EveryClaimEnumerable ==
    report # <<>> =>
       \A product \in ProductsOfStore(store) :
          \E i \in 1..Len(report[1].products) :
             LET p == report[1].products[i]
             IN  /\ p.id = product
                 /\ Len(p.claims) = Cardinality(ClaimsOfProduct(store, product))
                 /\ {c.id : c \in Range(p.claims)} = ClaimsOfProduct(store, product)

\* C18: a criterion without a name is listed under its claim, unverified,
\* and its claim is listed.
C18_UnnamedCriterionListed ==
    report # <<>> =>
       \A product \in ProductsOfStore(store) :
       \A claim \in ClaimsOfProduct(store, product) :
       \A criterion \in Obj(store, claim, "untp:Criterion") :
          Obj(store, criterion, "schemaorg:name") = {} =>
             \E e \in ListedClaims(report[1].products) :
                /\ e.product = product
                /\ e.claim.id = claim
                /\ \E c \in Range(e.claim.criteria) :
                      c.id = criterion /\ c.verifiedBy = "undefined"

\* C19: no two product entries have the same id, no two claim entries of a
\* product have the same id, no two criterion entries of a claim have the
\* same id.
NoTwoSameId(entries) ==
    \A i, j \in 1..Len(entries) : entries[i].id = entries[j].id => i = j

C19_GroupedByIri ==
    report # <<>> =>
       /\ NoTwoSameId(report[1].products)
       /\ \A p \in Range(report[1].products) :
             /\ NoTwoSameId(p.claims)
             /\ \A k \in Range(p.claims) : NoTwoSameId(k.criteria)

\* the first query returned two rows for the same product, claim and
\* criterion, and the products were listed
C19_Witness ==
    /\ report # <<>>
    /\ \E r1, r2 \in CriteriaRows(store) :
          /\ r1 # r2
          /\ r1.product = r2.product
          /\ r1.claim = r2.claim
          /\ r1.criterion = r2.criterion
    /\ \E p \in Range(report[1].products) :
          \E k \in Range(p.claims) : Len(k.criteria) >= 2

\* C20: a criterion entry that names a verifier has a verifiedCriterion
\* fact for its own claim, and the verifier is the issuer of a conformity
\* credential that attests this criterion for the claim's product and topic.
C20_VerifierAttestsThatCriterion ==
    report # <<>> =>
       \A e \in ListedClaims(report[1].products) :
       \A c \in Range(e.claim.criteria) :
          c.verifierName # "undefined" =>
             /\ T(e.claim.id, "result:verifiedCriterion", c.id) \in store
             /\ \E dpp \in OfType(store, "dpp:DigitalProductPassport") :
                \E dcc \in OfType(store, "dcc:DigitalConformityCredential") :
                   /\ c.verifiedBy \in Obj(store, dcc, "vc:issuer")
                   /\ Rule10Holds(store, dpp, e.claim.id, c.id, dcc)

(***************************************************************************)
(* Properties of the command line and of the validators.                   *)
(***************************************************************************)
\* every file of the command line passes the tier
Tier1Passed == \A i \in 1..Len(argv) : tier1ChecksForFile(argv[i], reachable).valid
Tier2Passed == \A f \in Range(argv) : validateUNTPCredential(f, reachable).valid
Tier3Passed == \A f \in Range(argv) : DocResult(f).valid

\* C21: the tiers run in order, Tier 2 only if every file passed Tier 1,
\* Tier 3 only if every file passed Tier 2, and the process exits with 0
\* exactly if there are files and all of them passed all three tiers; every
\* other run that exits does so with 1.
C21_TiersGateExit ==
    entry = "cli" =>
       /\ \A i \in 1..Len(tiers) : tiers[i].tier = i
       /\ Len(tiers) >= 2 \/ cpc = "tier2" => Tier1Passed
       /\ Len(tiers) >= 3 \/ cpc \in {"tier3", "save", "count", "claims"}
             => Tier1Passed /\ Tier2Passed
       /\ cpc = "exit" <=> exitCode # <<>>
       /\ exitCode \in {<<>>, <<0>>, <<1>>}
       /\ exitCode = <<0>> <=>
             /\ cpc = "exit"
             /\ argv # <<>>
             /\ Len(tiers) = 3
             /\ Tier1Passed /\ Tier2Passed /\ Tier3Passed

\* a run on two different files that passed the three tiers and exited
\* with 0
C21_Witness ==
    /\ entry = "cli"
    /\ cpc = "exit"
    /\ exitCode = <<0>>
    /\ Len(argv) = 2
    /\ argv[1] # argv[2]
    /\ Len(tiers) = 3

\* C22: Tier 2 validates every credential of a recognised UNTP type against
\* the UNTP schema of its type and version: a credential of one of these
\* types that violates its schema gets valid = false from
\* validateUNTPCredential, and the run fails Tier 2
C22_Tier2RejectsSchemaViolations ==
    \A c \in checks :
       /\ c.validator = "validateUNTPCredential"
       /\ RecognisedType(c.file)
       /\ ~UntpConforms(c.file)
       => /\ ~c.result.valid
          /\ Len(tiers) >= 2 => ~AllPassed(tiers[2])

\* C23 as stated: in a run that both performs inference and saves the graph,
\* the saved file contains every quad that is in the store when the run
\* finishes, the facts derived by the inference rules included
C23_SnapshotHasFinalStore ==
    /\ cpc \in {"return", "exit"}
    /\ saved # <<>>
    /\ runs > 0
    => WriteN3(store) \subseteq saved[1]

\* C23: the file saved on --save-graph is the text of the quads the store
\* holds when createRDFGraph has returned, the quads of the credentials: it
\* is written before the rules are applied, is not written again, and holds
\* no fact the run derives
C23_SnapshotIsCredentialGraph ==
    /\ saved # <<>> => /\ saveGraph
                      /\ saved[1] = WriteN3(GraphOf(ingested))
                      /\ \/ runs = 0
                         \/ /\ saved[1] = WriteN3(runStart)
                            /\ saved[1] \cap WriteN3(added) = {}
    /\ cpc \in {"tier3", "save"} => saved = <<>>

C23_Witness ==
    /\ cpc \in {"return", "exit"}
    /\ saved # <<>>
    /\ runs > 0
    /\ added # {}
    /\ WriteN3(store) # saved[1]

C25_ResolversReadOnly ==
    [][ /\ cpc \in {"save", "claims"} => store' = store
        /\ cpc # "tier3" => store \subseteq store'
        /\ cpc # "tier3" /\ store' # store
              => cpc = "count" /\ cpc' = "claims" /\ runs' = runs + 1 ]_vars

C25_Witness ==
    /\ cpc \in {"return", "exit"}
    /\ saved # <<>>
    /\ report # <<>>
    /\ runStart # {}
    /\ store = runStart \cup added
    /\ added # {}

\* C26: one ordered pass, not a fixpoint: in one call of runInferences the
\* rule files are evaluated in the order of the list, each one once; when
\* the call has returned true every file has been evaluated exactly once and
\* the store holds the quads of the start of the call, the results of these
\* evaluations and what was ingested since, whatever a rule could still
\* derive from them; quads added to the store after the call start no
\* evaluation
C26_OnePassNoFixpoint ==
    /\ [](/\ Len(evaluated) <= Len(files)
          /\ \A i \in 1..Len(evaluated) : evaluated[i] = files[i]
          /\ \A i, j \in 1..Len(evaluated) : evaluated[i] = evaluated[j] => i = j
          /\ pc = "idle" /\ result = "true"
                => /\ evaluated = files
                   /\ store = runStart \cup added \cup GraphOf(ingested)
                   /\ runStart \cup added = runInferences(runStart, fsFiles, catalog).store)
    /\ [][ /\ evaluated' # evaluated /\ evaluated' # <<>>
                => /\ pc = "loop"
                   /\ evaluated' = Append(evaluated, files[idx])
                   /\ files[idx] \notin Range(evaluated)
           /\ pc = "idle" /\ store' # store
                => /\ pc' = "idle"
                   /\ evaluated' = evaluated
                   /\ added' = added
                   /\ runs' = runs ]_vars

\* a call has returned true and a rule file it evaluated would derive,
\* from the facts of the store of the call, a fact the store lacks
C26_Witness ==
    /\ pc = "idle"
    /\ result = "true"
    /\ late = 0
    /\ added # {}
    /\ store = runStart \cup added
    /\ StillDerives(store, files, fsFiles, catalog)

\* quads were ingested after a call, and a rule file would derive a new fact
\* from them
C26_LateWitness ==
    /\ pc = "idle"
    /\ result = "true"
    /\ late > 0
    /\ store # runStart \cup added
    /\ StillDerives(store, files, fsFiles, catalog)

\* C27: within one rule file of runInferences the evaluation reads the quads
\* the store holds before it starts and the store is changed only when the
\* evaluation has returned all its results: the step that evaluates leaves
\* the store as it is, what it returns is what the rule derives from the
\* quads read, none of it derived from the rule's own results, and these
\* results enter the store in the one step that follows
C27_RuleReadsSnapshot ==
    /\ [](pc = "add" =>
            /\ store = quadsArg
            /\ inferenceResults =
                  executeQuery(InferenceFilePath(files[idx]), quadsArg, fsFiles,
                               catalog).quads)
    /\ [][ /\ pc = "loop" /\ pc' = "add"
                => /\ store' = store
                   /\ quadsArg' = store
           /\ pc = "add"
                => /\ store' = store \cup inferenceResults
                   /\ pc' = "loop"
           /\ pc = "loop" => store' = store ]_vars

\* a rule file has been evaluated on a store that holds results of an
\* earlier rule file, and none of its own results is in the store yet
C27_Witness ==
    /\ pc = "add"
    /\ idx > 1
    /\ added # {}
    /\ inferenceResults # {}
    /\ inferenceResults \cap store = {}

\* the assessments of a conformity credential of the quads S
AssessmentsOf(S, dcc) ==
    UNION {Obj(S, subject, "dcc:assessment") :
              subject \in Obj(S, dcc, "vc:credentialSubject")}

\* the products an assessment was made of
AssessedProducts(S, assessment) ==
    UNION {Obj(S, assessed, "untp:Product") :
              assessed \in Obj(S, assessment, "dcc:assessedProduct")}

\* the products of the passports that make the claim
ClaimProducts(S, dpp, claim) ==
    UNION {Obj(S, subject, "untp:product") :
              subject \in {t \in Obj(S, dpp, "vc:credentialSubject") :
                              claim \in Obj(S, t, "untp:conformityClaim")}}

\* C28: soundness of the criterion rule: every verifiedCriterion(claim, c)
\* fact the store holds after inference is backed by a conformity credential
\* D of the ingested documents with an assessment of the claim's product, on
\* the claim's topic, with conformance true and criterion c, and
\* dependsOn(claim, D) and claimsAttestedBy(passport, D) are in the store
\* too; an assessment with conformance false, of another product or on
\* another topic backs no such fact
C28_CriterionRuleSound ==
    cpc \in {"claims", "return", "exit"} =>
       \A q \in store :
          q[2] = "result:verifiedCriterion" =>
             \E dpp \in OfType(runStart, "dpp:DigitalProductPassport") :
             \E D \in OfType(runStart, "dcc:DigitalConformityCredential") :
             \E assessment \in AssessmentsOf(runStart, D) :
                /\ ClaimProducts(runStart, dpp, q[1])
                      \cap AssessedProducts(runStart, assessment) # {}
                /\ Obj(runStart, q[1], "untp:conformityTopic")
                      \cap Obj(runStart, assessment, "untp:conformityTopic") # {}
                /\ Obj(runStart, assessment, "untp:conformance") = {"true"}
                /\ q[3] \in Obj(runStart, assessment, "untp:Criterion")
                /\ T(q[1], "result:dependsOn", D) \in store
                /\ T(dpp, "result:claimsAttestedBy", D) \in store

\* the rules ran on a passport, a credential that attests some of its
\* criteria and a credential whose assessments of the packaging criterion
\* are not conforming, of another product or on another topic
C28_Witness ==
    /\ cpc \in {"claims", "return", "exit"}
    /\ result = "true"
    /\ {DppSimpleId, DccSimpleId, DccFailedId} \subseteq ingested
    /\ T(Claim1, "result:verifiedCriterion", Assembly) \in store
    /\ T(Claim1, "result:verifiedCriterion", Packaging) \notin store
    /\ T(DppSimpleId, "result:claimsAttestedBy", DccFailedId) \notin store

\* tier3ChecksForGraph has returned its counts
Tier3Returned == tiers # <<>> /\ tiers[Len(tiers)].tier = 3

\* C29: tier3ChecksForGraph runs inference and claim resolution only if
\* every input document was added to the graph: when a document fails
\* ingest or there is no document, neither runInferences nor
\* checkProductClaims is called, and the validFiles and totalFiles it
\* returns are the number of valid results and the number of results of
\* createRDFGraph
C29_AnalysisNeedsAllFiles ==
    /\ runs > 0 \/ report # <<>> \/ cpc = "claims"
          => /\ DOMAIN results = filesData
             /\ filesData # {}
             /\ \A d \in filesData : results[d].valid /\ d \in ingested
    /\ Tier3Returned
          => /\ cpc \in {"return", "exit"}
             /\ tiers[Len(tiers)].validFiles =
                   Cardinality({d \in filesData : ~ConversionThrows(d)})
             /\ tiers[Len(tiers)].totalFiles = Cardinality(filesData)
             /\ (\E d \in filesData : ConversionThrows(d)) \/ filesData = {}
                   => runs = 0 /\ report = <<>> /\ result = "none" /\ added = {}
             /\ (\A d \in filesData : ~ConversionThrows(d)) /\ filesData # {}
                   => runs = 1 /\ report # <<>>

\* a call on two documents, one of which could not be converted, has
\* returned
C29_Witness ==
    /\ cpc = "return"
    /\ Cardinality(filesData) >= 2
    /\ ingested # {}
    /\ \E d \in filesData : ConversionThrows(d)
    /\ tiers[Len(tiers)].validFiles = Cardinality(filesData) - 1

====
